---- MODULE Spec2Model ----
(***************************************************************************)
(* A model of the ArbiterID generator (src/arbiterid.go).                  *)
(*                                                                         *)
(* TLC's integers are 32 bits wide, the program's are int64.  An int64 is  *)
(* therefore modelled as a WORD: the set of the positions (0 = least       *)
(* significant, 63 = sign) of the one-bits of its two's complement form.   *)
(* Shifts, masks, | and the signed comparisons are defined on words bit    *)
(* for bit, so overflow and sign behave as they do in Go.  Small fields    *)
(* (sequence, node, category) are kept as plain integers and converted     *)
(* with W where the code widens them to int64.                             *)
(***************************************************************************)
EXTENDS Integers, Sequences, FiniteSets, TLC

----------------------------------------------------------------------------
(* int64 arithmetic on words *)

\* width of int64 (type ID int64)
WordBits == 64

SignBit == WordBits - 1

\* the word of a small non-negative integer n (n < 2^31)
W(n) == {b \in 0..30 : (n \div (2^b)) % 2 = 1}

Zero == {}

\* x << k on int64: bits shifted past bit 63 are lost
Shl(x, k) == {b + k : b \in {i \in x : i + k < WordBits}}

\* x >> k on int64 (arithmetic: the sign bit is replicated)
Shr(x, k) == {b - k : b \in {i \in x : i >= k}}
             \cup (IF SignBit \in x THEN (WordBits - k)..SignBit ELSE {})

Or(x, y) == x \cup y

And(x, y) == x \cap y

\* x + 1 on int64 (wraps)
Inc(x) == IF x = 0..SignBit THEN {}
          ELSE LET p == CHOOSE i \in (0..SignBit) \ x :
                            \A j \in (0..SignBit) \ x : i <= j
               IN  (x \ (0..p)) \cup {p}

\* x - 1 on int64 (wraps)
Dec(x) == IF x = {} THEN 0..SignBit
          ELSE LET p == CHOOSE i \in x : \A j \in x : i <= j
               IN  (x \ {p}) \cup (0..(p - 1))

\* unsigned x < y: the highest bit in which they differ is set in y
ULess(x, y) == \E i \in y \ x : \A j \in x \ y : j < i

\* signed x < y on int64
SLess(x, y) == IF (SignBit \in x) # (SignBit \in y) THEN SignBit \in x
               ELSE ULess(x, y)

SLeq(x, y) == x = y \/ SLess(x, y)

\* x + y on int64 (wraps): bit i of the sum is x_i + y_i + carry_i mod 2
RECURSIVE AddFrom(_, _, _, _)
AddFrom(x, y, i, carry) ==
    IF i = WordBits THEN {}
    ELSE LET s == (IF i \in x THEN 1 ELSE 0) + (IF i \in y THEN 1 ELSE 0) + carry
         IN  (IF s % 2 = 1 THEN {i} ELSE {}) \cup AddFrom(x, y, i + 1, s \div 2)

Add(x, y) == AddFrom(x, y, 0, 0)

----------------------------------------------------------------------------
(* constants of the bit layout *)

\* Epoch int64 = 1735718400000 = 1655310 * 2^20 + 61440
Epoch == Or(Shl(W(1655310), 20), W(61440))

TypeBits == 10
TimestampBits == 41
NodeBits == 2
SeqBits == 10

TypeMax == (2^TypeBits) - 1
TimestampMax == Dec(Shl(W(1), TimestampBits))
NodeMax == (2^NodeBits) - 1
SeqMax == (2^SeqBits) - 1

SeqShift == 0
NodeShift == SeqBits
TimeShift == NodeShift + NodeBits
TypeShift == TimeShift + TimestampBits

SeqMask == Shl(W(SeqMax), SeqShift)
NodeMask == Shl(W(NodeMax), NodeShift)
TimestampMask == Shl(TimestampMax, TimeShift)
TypeMask == Shl(W(TypeMax), TypeShift)

----------------------------------------------------------------------------
(* identifiers *)

\* Pack with the node id left unshifted
PackNodeUnshifted(idType, now, node, seq) ==
    Or(Or(Or(Shl(W(idType), TypeShift), Shl(now, TimeShift)), W(node)), W(seq))

\* the packing expression of generateInternal; seq and node are int64
\* fields of the Node, idType is widened from uint16
\* Pack with the node field one bit wide
PackNodeOneBit(idType, now, node, seq) ==
    Or(Or(Or(Shl(W(idType), TypeShift), Shl(now, TimeShift)),
          Shl(W(node % 2), NodeShift)),
       W(seq))

Pack(idType, now, node, seq) ==
    Or(Or(Or(Shl(W(idType), TypeShift), Shl(now, TimeShift)),
          Shl(W(node), NodeShift)),
       W(seq))

\* (id & TimestampMask) >> TimeShift: the timestamp offset of an identifier
TimestampOffset(id) == Shr(And(id, TimestampMask), TimeShift)

\* the extractor methods ID.Type, ID.Time, ID.Node, ID.Seq
ID_Type(id) == Shr(And(id, TypeMask), TypeShift)

\* ID.Time: Unix milliseconds
ID_Time(id) == Add(TimestampOffset(id), Epoch)

\* ID.Node without the shift
ID_NodeUnshifted(id) == And(id, NodeMask)

ID_Node(id) == Shr(And(id, NodeMask), NodeShift)

ID_Seq(id) == And(id, SeqMask)

\* ID.Components: (idType, timestampMillisUnix, node, seq); idType is
\* narrowed to uint16, which keeps a 10-bit value as it is
Components(id) ==
    LET timestampMillisNodeEpoch == TimestampOffset(id)
    IN  <<ID_Type(id), Add(timestampMillisNodeEpoch, Epoch), ID_Node(id), ID_Seq(id)>>

----------------------------------------------------------------------------
(* the generator *)

VARIABLES
    n,          \* the Node: [node, time, seq, lastID,
                \* strictMonotonicityChecks, quietMode]
    ret,        \* the last call on n that returned: [op, idType, ts, id,
                \* err] (ts: the timestamp argument of
                \* GenerateWithTimestamp; the clock reading of Generate
                \* where the run records it)
    fails,      \* history: how many calls in a row have returned an error
    issuedTop,  \* history: the largest identifier a strict Node has
                \* returned, as a set (empty until the first one)
    first,      \* history: the first identifier returned, as a set
    streak,     \* history: the number of calls so far, while all of them
                \* were GenerateWithTimestamp with a valid category at one
                \* in-range timestamp; -1 otherwise
    lastOk,     \* history: the identifier the most recent successful
                \* Generate or GenerateWithTimestamp call returned, 0 when
                \* there was none
    mu,         \* n.mu: the thread that holds the lock, 0 when it is free
    pc,         \* where each thread is: "idle", "lock" (blocked in
                \* n.mu.Lock) or "locked" (past it)
    call,       \* the category of each thread's call in progress
    held,       \* history: the calls in the order they took the lock, each
                \* [thread, op, id, err], err "pending" until the call
                \* returns
    started,    \* history: how many calls have been started
    method,     \* the method each thread's call in progress is a call of
    attempts,   \* the local variable attempts of the call that holds the
                \* lock, or held it last: the iterations of its wait loop
    peer,       \* a second Node, constructed with another node id
    issued,     \* history: the identifiers that n and peer have returned,
                \* <<those of n, those of peer>>
    clockWarningCount,
                \* the field clockWarningCount of n and of peer, as a
                \* pair; it is followed in the runs that compare a loud
                \* and a quiet generator
    logged,     \* the lines that n and peer have written to the log, as a
                \* pair of counts
    arg,        \* the input of a pure function under check
    out         \* its result

genVars == <<n, ret, fails, issuedTop, first, streak, lastOk>>

conVars == <<mu, pc, call, held, started, method, attempts>>

pureVars == <<arg, out>>

peerVars == <<peer, issued, clockWarningCount, logged>>

vars == <<genVars, conVars, pureVars, peerVars>>

\* NewNode: the Node for a valid nodeID (0 <= nodeID <= NodeMax) and options
NewNode(nodeID, strict) ==
    [node |-> nodeID, time |-> Zero, seq |-> 0, lastID |-> Zero,
     strictMonotonicityChecks |-> strict, quietMode |-> FALSE]

\* the option WithQuietMode(enable) applied to the Node under construction
WithQuietMode(m, enable) == [m EXCEPT !.quietMode = enable]

\* ValidNodeID without the lower limit
ValidNodeIDLoose(nodeID) == nodeID <= NodeMax

\* the node ids NewNode accepts
ValidNodeID(nodeID) == ~(nodeID < 0 \/ nodeID > NodeMax)

\* the nil *Node that NewNode returns with an error; no method is called
\* on it
Nil ==
    [node |-> -1, time |-> Zero, seq |-> 0, lastID |-> Zero,
     strictMonotonicityChecks |-> FALSE, quietMode |-> FALSE]

\* what NewNode returns: the Node and the error
NewNodeResult(nodeID, strict) ==
    IF ValidNodeID(nodeID)
    THEN [n |-> NewNode(nodeID, strict), err |-> "nil"]
    ELSE [n |-> Nil, err |-> "ErrInvalidNodeID"]

\* a call's outcome: the Node it leaves, the identifier and the error
Outcome(m, id, err) == [n |-> m, id |-> id, err |-> err]

\* NotAboveLast with the option read the wrong way round
NotAboveLastInverted(m, id) == ~m.strictMonotonicityChecks /\ SLeq(id, m.lastID)

\* NotAboveLast with the option ignored
NotAboveLastAlways(m, id) == SLeq(id, m.lastID)

\* the test of the strict check: the new id is not above the last one
NotAboveLast(m, id) == m.strictMonotonicityChecks /\ SLeq(id, m.lastID)

\* Overflowed with >= for >
OverflowedAtMax(now) == SLeq(TimestampMax, now)

\* now > TimestampMax
Overflowed(now) == SLess(TimestampMax, now)

\* generateInternal with n.lastID assigned before the strict check
generateInternalEager(m, idType, now) ==
    LET m1 == [m EXCEPT !.time = now]
        id == Pack(idType, now, m1.node, m1.seq)
    IN  IF Overflowed(now)
        THEN Outcome(m1, Zero, "ErrTimestampOverflow")
        ELSE IF NotAboveLast(m1, id)
        THEN Outcome([m1 EXCEPT !.lastID = id], Zero, "ErrMonotonicityViolation")
        ELSE Outcome([m1 EXCEPT !.lastID = id], id, "nil")

\* generateInternal: n.time is assigned first, then the overflow check, the
\* packing, the strict check, and n.lastID on success
generateInternal(m, idType, now) ==
    LET m1 == [m EXCEPT !.time = now]
        id == Pack(idType, now, m1.node, m1.seq)
    IN  IF Overflowed(now)
        THEN Outcome(m1, Zero, "ErrTimestampOverflow")
        ELSE IF NotAboveLast(m1, id)
        THEN Outcome(m1, Zero, "ErrMonotonicityViolation")
        ELSE Outcome([m1 EXCEPT !.lastID = id], id, "nil")

\* n.seq = (n.seq + 1) & SeqMax
NextSeq(seq) == (seq + 1) % (SeqMax + 1)

\* GenerateWithTimestamp; now is timestamp.UTC().Sub(n.epoch).Milliseconds()
GenerateWithTimestamp(m, idType, now) ==
    IF idType > TypeMax THEN Outcome(m, Zero, "ErrInvalIDType")
    ELSE IF now = m.time
    THEN LET m1 == [m EXCEPT !.seq = NextSeq(m.seq)]
         IN  IF m1.seq = 0
             THEN Outcome(m1, Zero, "ErrClockNotAdvancing")
             ELSE generateInternal(m1, idType, now)
    ELSE generateInternal([m EXCEPT !.seq = 0], idType, now)

\* ClampedNow without the clock-regression branch
ClampedNowRaw(m, sample) == sample

\* ClampedNow with the clamp under !n.quietMode, next to the warning
ClampedNowWhenLoud(m, sample) ==
    IF SLess(sample, m.time) /\ ~m.quietMode THEN m.time ELSE sample

\* Generate up to its wait loop: the clock sample, clamped to n.time when
\* the clock went backwards
ClampedNow(m, sample) == IF SLess(sample, m.time) THEN m.time ELSE sample

\* the sentinel for a wait loop that used up maxRolloverWaitAttempts
\* samples, none of them above originalTime
Stalled == {-1}

\* Generate.  sample is the first reading of the clock.  The wait loop
\* runs with the lock held, so it is one step: fresh is the first of its
\* at most maxRolloverWaitAttempts readings that is above originalTime,
\* or Stalled when there is none.
Generate(m, idType, sample, fresh) ==
    IF idType > TypeMax THEN Outcome(m, Zero, "ErrInvalIDType")
    ELSE LET now == ClampedNow(m, sample) IN
         IF now = m.time
         THEN LET m1 == [m EXCEPT !.seq = NextSeq(m.seq)]
              IN  IF m1.seq = 0
                  THEN IF fresh = Stalled
                       THEN Outcome(m1, Zero, "ErrClockNotAdvancing")
                       ELSE generateInternal(m1, idType, fresh)
                  ELSE generateInternal(m1, idType, now)
         ELSE generateInternal([m EXCEPT !.seq = 0], idType, now)

\* whether Generate enters its wait loop
Wraps(m, sample) == ClampedNow(m, sample) = m.time /\ NextSeq(m.seq) = 0

----------------------------------------------------------------------------
(* the callers' inputs *)

\* callers give up after this many failed calls in a row
MaxFailures == 2

\* the categories callers pass: the two ends of the range, and TypeMax + 1
Types == {0, TypeMax, TypeMax + 1}

\* the millisecond offsets that timestamps and clock readings take: just
\* before the epoch, the epoch, and the two sides of the 41-bit ceiling
Times == {Dec(Zero), Zero, TimestampMax, Inc(TimestampMax)}

\* a call with a category above TypeMax returns before it looks at the
\* time, so one time stands for all of them
TimesFor(idType) == IF idType > TypeMax THEN {Zero} ELSE Times

\* the node ids generators are constructed with: the two ends of the range
NodeIDs == {NodeMax}

\* the threads that share one Node
NumThreads == 2

Threads == 1..NumThreads

\* the calls the threads start between them
MaxCalls == 4

----------------------------------------------------------------------------
(* one caller: every call runs from Lock to Unlock before the next *)

NoCall == [op |-> "none", idType |-> 0, ts |-> Zero, id |-> Zero, err |-> "nil"]

\* the generator's history when it has just been constructed
InitHistory ==
    /\ ret = NoCall
    /\ fails = 0
    /\ issuedTop = {}
    /\ first = {}
    /\ streak = 0
    /\ lastOk = n.lastID

\* no thread has called yet
InitThreads ==
    /\ mu = 0
    /\ pc = [t \in Threads |-> "idle"]
    /\ call = [t \in Threads |-> 0]
    /\ held = <<>>
    /\ started = 0
    /\ method = [t \in Threads |-> "Generate"]
    /\ attempts = 0

\* no pure function is under check
InitPure ==
    /\ arg = <<>>
    /\ out = <<>>

\* no second Node is in use
InitPeer ==
    /\ peer = n
    /\ issued = <<{}, {}>>
    /\ clockWarningCount = <<0, 0>>
    /\ logged = <<0, 0>>

Init ==
    /\ n \in {NewNode(nodeID, strict) : nodeID \in NodeIDs, strict \in BOOLEAN}
    /\ InitHistory
    /\ InitThreads
    /\ InitPure
    /\ InitPeer

\* a timestamp offset the 41-bit field holds
InRange(ts) == ~SLess(ts, Zero) /\ ~SLess(TimestampMax, ts)

\* the longest streak that is counted
MaxStreak == SeqMax + 2

\* the bookkeeping of a call that returned outcome o; ts is the timestamp
\* argument of GenerateWithTimestamp, and where track is set the first
\* clock reading of Generate; first is recorded only where track is set
Returned(op, idType, ts, o, track) ==
    /\ n' = o.n
    /\ ret' = [op |-> op, idType |-> idType, ts |-> ts, id |-> o.id, err |-> o.err]
    /\ fails' = IF o.err = "nil" THEN 0 ELSE fails + 1
    /\ issuedTop' = IF /\ o.err = "nil"
                       /\ n.strictMonotonicityChecks
                       /\ \A x \in issuedTop : SLess(x, o.id)
                    THEN {o.id} ELSE issuedTop
    /\ first' = IF track /\ o.err = "nil" /\ first = {} THEN {o.id} ELSE first
    /\ lastOk' = IF o.err = "nil" THEN o.id ELSE lastOk
    /\ streak' = IF /\ streak >= 0
                    /\ streak < MaxStreak
                    /\ op = "GenerateWithTimestamp"
                    /\ idType <= TypeMax
                    /\ InRange(ts)
                    /\ (streak = 0 \/ ts = ret.ts)
                 THEN streak + 1 ELSE -1

\* the outcomes the wait loop of Node m can have for this first clock
\* reading
WaitOutcomesOf(m, sample) ==
    IF Wraps(m, sample)
    THEN {f \in Times : SLess(m.time, f)} \cup {Stalled}
    ELSE {Stalled}

WaitOutcomes(sample) == WaitOutcomesOf(n, sample)

GenerateCalls(track) ==
    /\ fails < MaxFailures
    /\ \E idType \in Types :
       \E sample \in TimesFor(idType) :
          \E fresh \in WaitOutcomes(sample) :
             \E o \in {Generate(n, idType, sample, fresh)} :
                Returned("Generate", idType,
                         IF track THEN sample ELSE Zero, o, track)
    /\ UNCHANGED <<conVars, pureVars, peerVars>>

CallGenerate == GenerateCalls(FALSE)

CallGenerateWithTimestamp ==
    /\ fails < MaxFailures
    /\ \E idType \in Types :
       \E now \in TimesFor(idType) :
          \E o \in {GenerateWithTimestamp(n, idType, now)} :
             Returned("GenerateWithTimestamp", idType, now, o, FALSE)
    /\ UNCHANGED <<conVars, pureVars, peerVars>>

Next == CallGenerate \/ CallGenerateWithTimestamp

Spec == Init /\ [][Next]_vars

----------------------------------------------------------------------------
(* a generator that is used through Generate alone *)

CallGenerateOnly == GenerateCalls(TRUE)

SpecGenerate == Init /\ [][CallGenerateOnly]_vars

----------------------------------------------------------------------------
(* threads that call Generate on one shared Node *)

\* the Node after SeqMax calls in the millisecond TimestampMax, the last of
\* them with category idType: one more call is served, the one after wraps
NearWrapAt(m, idType, now) ==
    [m EXCEPT !.time = now,
              !.seq = SeqMax - 1,
              !.lastID = Pack(idType, now, m.node, SeqMax - 1)]

NearWrap(m, idType) == NearWrapAt(m, idType, TimestampMax)

InitThreaded ==
    /\ n \in {NewNode(nodeID, strict) : nodeID \in NodeIDs, strict \in BOOLEAN}
          \cup {NearWrap(NewNode(nodeID, strict), 0) :
                   nodeID \in NodeIDs, strict \in BOOLEAN}
    /\ InitHistory
    /\ InitThreads
    /\ InitPure
    /\ InitPeer

\* MutexFree for a lock that its holder gives up while it sleeps in the
\* wait loop
MutexFreeOrAsleep(owner) == IF owner = 0 THEN TRUE ELSE pc[owner] = "wait"

\* MutexFree for a lock that excludes nobody
MutexFreeAlways(owner) == owner >= 0

\* n.mu.Lock() returns when no thread holds the lock
MutexFree(owner) == owner = 0

\* a thread calls Generate: a category above TypeMax is rejected before the
\* lock is asked for, any other call goes on to n.mu.Lock()
Enter(t) ==
    /\ pc[t] = "idle"
    /\ started < MaxCalls
    /\ started' = started + 1
    /\ \E idType \in Types :
          IF idType > TypeMax
          THEN /\ Returned("Generate", idType, Zero,
                           Generate(n, idType, Zero, Stalled), FALSE)
               /\ UNCHANGED <<mu, pc, call, held>>
          ELSE /\ pc' = [pc EXCEPT ![t] = "lock"]
               /\ call' = [call EXCEPT ![t] = idType]
               /\ UNCHANGED <<genVars, mu, held>>
    /\ method' = [method EXCEPT ![t] = "Generate"]
    /\ UNCHANGED <<attempts, pureVars, peerVars>>

\* n.mu.Lock() returns
Lock(t) ==
    /\ pc[t] = "lock"
    /\ MutexFree(mu)
    /\ mu' = t
    /\ pc' = [pc EXCEPT ![t] = "locked"]
    /\ held' = Append(held, [thread |-> t, op |-> method[t], id |-> Zero,
                              err |-> "pending"])
    /\ attempts' = 0
    /\ UNCHANGED <<genVars, call, started, method, pureVars, peerVars>>

\* the position in held of thread t's call in progress
Pending(t) ==
    CHOOSE i \in 1..Len(held) : held[i].thread = t /\ held[i].err = "pending"

\* the rest of Generate, from the clock reading to the deferred
\* n.mu.Unlock()
Body(t) ==
    /\ pc[t] = "locked"
    /\ method[t] = "Generate"
    /\ \E sample \in Times :
          \E fresh \in WaitOutcomes(sample) :
             \E o \in {Generate(n, call[t], sample, fresh)} :
                /\ Returned("Generate", call[t], Zero, o, FALSE)
                /\ held' = [held EXCEPT ![Pending(t)].id = o.id,
                                        ![Pending(t)].err = o.err]
    /\ mu' = 0
    /\ pc' = [pc EXCEPT ![t] = "idle"]
    /\ UNCHANGED <<call, started, method, attempts, pureVars, peerVars>>

NextThreaded == \E t \in Threads : Enter(t) \/ Lock(t) \/ Body(t)

SpecThreaded == InitThreaded /\ [][NextThreaded]_vars

----------------------------------------------------------------------------
(* threads that call Generate, GenerateWithTimestamp and LastID on one
   shared Node; the wait loop of Generate runs one iteration at a time *)

\* the bound on the iterations of the wait loop
maxRolloverWaitAttempts == 2000

\* the calls the threads start between them while the wait loop is
\* followed one iteration at a time
MaxWaitCalls == 2

\* the Node after SeqMax + 1 calls in the millisecond of the epoch: the next
\* call in that millisecond wraps the sequence
InitWait ==
    /\ n \in {Generate(NearWrapAt(NewNode(nodeID, strict), 0, Zero),
                        0, Zero, Stalled).n :
                  nodeID \in NodeIDs, strict \in BOOLEAN}
    /\ InitHistory
    /\ InitThreads
    /\ InitPure
    /\ InitPeer

\* a thread calls GenerateWithTimestamp: as in Generate, a category above
\* TypeMax is rejected before the lock is asked for
EnterWithTimestamp(t) ==
    /\ pc[t] = "idle"
    /\ started < MaxCalls
    /\ started' = started + 1
    /\ \E idType \in Types :
          IF idType > TypeMax
          THEN /\ Returned("GenerateWithTimestamp", idType, Zero,
                           GenerateWithTimestamp(n, idType, Zero), FALSE)
               /\ UNCHANGED <<mu, pc, call, held, method>>
          ELSE /\ pc' = [pc EXCEPT ![t] = "lock"]
               /\ call' = [call EXCEPT ![t] = idType]
               /\ method' = [method EXCEPT ![t] = "GenerateWithTimestamp"]
               /\ UNCHANGED <<genVars, mu, held>>
    /\ UNCHANGED <<attempts, pureVars, peerVars>>

\* a thread calls LastID, which goes straight to n.mu.Lock()
EnterLastID(t) ==
    /\ pc[t] = "idle"
    /\ started < MaxCalls
    /\ started' = started + 1
    /\ pc' = [pc EXCEPT ![t] = "lock"]
    /\ method' = [method EXCEPT ![t] = "LastID"]
    /\ UNCHANGED <<genVars, mu, call, held, attempts, pureVars, peerVars>>

\* Unlock that is skipped when the call returns an error
UnlockOnSuccess(t, o) ==
    /\ held' = [held EXCEPT ![Pending(t)].id = o.id,
                            ![Pending(t)].err = o.err]
    /\ mu' = IF o.err = "nil" THEN 0 ELSE mu
    /\ pc' = [pc EXCEPT ![t] = "idle"]

\* thread t's call returns outcome o and the deferred n.mu.Unlock() runs
Unlock(t, o) ==
    /\ held' = [held EXCEPT ![Pending(t)].id = o.id,
                            ![Pending(t)].err = o.err]
    /\ mu' = 0
    /\ pc' = [pc EXCEPT ![t] = "idle"]

\* Generate from the clock reading to the wait loop: the call returns
\* unless the sequence wrapped; then n.seq is 0 and the loop starts
Begin(t) ==
    /\ pc[t] = "locked"
    /\ method[t] = "Generate"
    /\ \E sample \in Times :
          IF Wraps(n, sample)
          THEN /\ n' = [n EXCEPT !.seq = NextSeq(n.seq)]
               /\ pc' = [pc EXCEPT ![t] = "wait"]
               /\ UNCHANGED <<ret, fails, issuedTop, first, streak, lastOk,
                              mu, held>>
          ELSE \E o \in {Generate(n, call[t], sample, Stalled)} :
                  /\ Returned("Generate", call[t], sample, o, FALSE)
                  /\ Unlock(t, o)
    /\ UNCHANGED <<call, started, method, attempts, pureVars, peerVars>>

\* OutOfAttempts with the bound at one attempt
OutOfAttemptsEarly(k) == k > 1

\* attempts > maxRolloverWaitAttempts
OutOfAttempts(k) == k > maxRolloverWaitAttempts

\* Advanced with >= for >
AdvancedOrEqual(m, freshTime) == SLeq(m.time, freshTime)

\* freshTime > originalTime, where originalTime is n.time
Advanced(m, freshTime) == SLess(m.time, freshTime)

\* one iteration of the wait loop: count the attempt and give up when the
\* bound is passed, else sleep and read the clock; a reading above
\* originalTime (n.time, which the loop leaves alone) ends the loop
Wait(t) ==
    /\ pc[t] = "wait"
    /\ attempts' = attempts + 1
    /\ IF OutOfAttempts(attempts + 1)
       THEN \E o \in {Outcome(n, Zero, "ErrClockNotAdvancing")} :
               /\ Returned("Generate", call[t], n.time, o, FALSE)
               /\ Unlock(t, o)
       ELSE \E freshTime \in Times :
               IF Advanced(n, freshTime)
               THEN \E o \in {generateInternal(n, call[t], freshTime)} :
                       /\ Returned("Generate", call[t], freshTime, o, FALSE)
                       /\ Unlock(t, o)
               ELSE UNCHANGED <<genVars, mu, pc, held>>
    /\ UNCHANGED <<call, started, method, pureVars, peerVars>>

\* GenerateWithTimestamp from the lock to the deferred n.mu.Unlock()
BodyWithTimestamp(t) ==
    /\ pc[t] = "locked"
    /\ method[t] = "GenerateWithTimestamp"
    /\ \E now \in Times :
          \E o \in {GenerateWithTimestamp(n, call[t], now)} :
             /\ Returned("GenerateWithTimestamp", call[t], now, o, FALSE)
             /\ Unlock(t, o)
    /\ UNCHANGED <<call, started, method, attempts, pureVars, peerVars>>

\* LastID from the lock to the deferred n.mu.Unlock(): it returns n.lastID
BodyLastID(t) ==
    /\ pc[t] = "locked"
    /\ method[t] = "LastID"
    /\ ret' = [op |-> "LastID", idType |-> 0, ts |-> Zero, id |-> n.lastID,
               err |-> "nil"]
    /\ Unlock(t, Outcome(n, n.lastID, "nil"))
    /\ UNCHANGED <<n, fails, issuedTop, first, streak, lastOk>>
    /\ UNCHANGED <<call, started, method, attempts, pureVars, peerVars>>

NextWait ==
    \E t \in Threads :
       \/ started < MaxWaitCalls /\ Enter(t)
       \/ started < MaxWaitCalls /\ EnterWithTimestamp(t)
       \/ started < MaxWaitCalls /\ EnterLastID(t)
       \/ Lock(t)
       \/ Begin(t)
       \/ Wait(t)
       \/ BodyWithTimestamp(t)
       \/ BodyLastID(t)

SpecWait == InitWait /\ [][NextWait]_vars

\* the scheduler is fair to every thread: n.mu.Lock() returns when the lock
\* stays free, the sleep in the wait loop returns, and no step of a
\* critical section waits for another thread
FairSpecWait ==
    /\ SpecWait
    /\ \A t \in Threads :
          /\ WF_vars(Lock(t))
          /\ WF_vars(Begin(t))
          /\ WF_vars(Wait(t))
          /\ WF_vars(BodyWithTimestamp(t))
          /\ WF_vars(BodyLastID(t))

\* one thread calls Generate, and no other thread calls anything
Caller == 1

NextLoop ==
    \/ started < MaxWaitCalls /\ Enter(Caller)
    \/ Lock(Caller)
    \/ Begin(Caller)
    \/ Wait(Caller)

SpecLoop == InitWait /\ [][NextLoop]_vars

\* a thread that is not blocked keeps running: n.mu.Lock() returns when
\* the lock is free, the sleep in the wait loop returns, and no step of the
\* critical section waits for another thread
FairSpecLoop ==
    /\ SpecLoop
    /\ WF_vars(Lock(Caller))
    /\ WF_vars(Begin(Caller))
    /\ WF_vars(Wait(Caller))

----------------------------------------------------------------------------
(* threads that call the three methods, every call one step from the lock
   to the unlock *)

\* the calls the threads start between them
MaxMethodCalls == 3

InitMethods ==
    /\ n \in {NewNode(nodeID, strict) : nodeID \in NodeIDs, strict \in BOOLEAN}
    /\ InitHistory
    /\ InitThreads
    /\ InitPure
    /\ InitPeer

NextMethods ==
    \E t \in Threads :
       \/ started < MaxMethodCalls /\ Enter(t)
       \/ started < MaxMethodCalls /\ EnterWithTimestamp(t)
       \/ started < MaxMethodCalls /\ EnterLastID(t)
       \/ Lock(t)
       \/ Body(t)
       \/ BodyWithTimestamp(t)
       \/ BodyLastID(t)

SpecMethods == InitMethods /\ [][NextMethods]_vars

----------------------------------------------------------------------------
(* NewNode with any node id, then the threads' calls on the Node if there
   is one *)

\* the node ids NewNode is called with: both ends of the range and the
\* integers next to them
NodeIDArguments == {-1, 0, NodeMax, NodeMax + 1}

\* arg is the arguments of NewNode and out the error it returned
InitConfig ==
    /\ arg \in {<<nodeID, strict>> : nodeID \in NodeIDArguments,
                                      strict \in BOOLEAN}
    /\ n = NewNodeResult(arg[1], arg[2]).n
    /\ out = <<NewNodeResult(arg[1], arg[2]).err>>
    /\ InitHistory
    /\ InitThreads
    /\ InitPeer

NextConfig == out[1] = "nil" /\ NextMethods

SpecConfig == InitConfig /\ [][NextConfig]_vars

----------------------------------------------------------------------------
(* two generators with different node ids, each called on its own; ret and
   the history of one generator follow the calls on n *)

\* the calls made on the two generators together
MaxNodeCalls == 3

\* generator 1 is n, generator 2 is peer
Generators == {1, 2}

NodeOf(g) == IF g = 1 THEN n ELSE peer

InitNodes ==
    /\ n \in {NewNode(nodeID, strict) : nodeID \in 0..NodeMax, strict \in BOOLEAN}
    /\ peer \in {NewNode(nodeID, strict) :
                    nodeID \in 0..NodeMax, strict \in BOOLEAN}
    /\ peer.node # n.node
    /\ issued = <<{}, {}>>
    /\ clockWarningCount = <<0, 0>>
    /\ logged = <<0, 0>>
    /\ InitHistory
    /\ InitThreads
    /\ InitPure

\* generator g returned outcome o from a call of method op
ReturnedOn(g, op, idType, ts, o) ==
    /\ started' = started + 1
    /\ issued' = IF o.err = "nil"
                 THEN [issued EXCEPT ![g] = @ \cup {o.id}] ELSE issued
    /\ IF g = 1
       THEN Returned(op, idType, ts, o, FALSE) /\ peer' = peer
       ELSE peer' = o.n /\ UNCHANGED genVars
    /\ UNCHANGED <<mu, pc, call, held, method, attempts, pureVars,
                   clockWarningCount, logged>>

GenerateOn(g) ==
    /\ started < MaxNodeCalls
    /\ \E idType \in Types :
       \E sample \in TimesFor(idType) :
          \E fresh \in WaitOutcomesOf(NodeOf(g), sample) :
             \E o \in {Generate(NodeOf(g), idType, sample, fresh)} :
                ReturnedOn(g, "Generate", idType, Zero, o)

GenerateWithTimestampOn(g) ==
    /\ started < MaxNodeCalls
    /\ \E idType \in Types :
       \E now \in TimesFor(idType) :
          \E o \in {GenerateWithTimestamp(NodeOf(g), idType, now)} :
             ReturnedOn(g, "GenerateWithTimestamp", idType, now, o)

NextNodes == \E g \in Generators : GenerateOn(g) \/ GenerateWithTimestampOn(g)

SpecNodes == InitNodes /\ [][NextNodes]_vars

----------------------------------------------------------------------------
(* a loud and a quiet generator, called in step: every call is made on both
   with the same arguments and the same readings of the clock; n is the
   loud one and peer the quiet one *)

\* the calls made on the pair
MaxQuietCalls == 4

\* now < n.time-1 inside now < n.time: the clock went back by more than a
\* millisecond
Warns(m, sample) == SLess(sample, m.time) /\ SLess(sample, Dec(m.time))

\* n.clockWarningCount after Generate: both branches of the quietMode test
\* increment it
WarningCount(m, idType, sample, count) ==
    IF idType <= TypeMax /\ Warns(m, sample)
    THEN IF ~m.quietMode THEN count + 1 ELSE count + 1
    ELSE count

\* the log.Printf calls of Generate: the clock-regression warning and the
\* stuck-clock line, both under !n.quietMode
LinesOfGenerate(m, idType, sample, fresh) ==
    IF idType > TypeMax THEN 0
    ELSE (IF Warns(m, sample) /\ ~m.quietMode THEN 1 ELSE 0)
         + (IF Wraps(m, sample) /\ fresh = Stalled /\ ~m.quietMode
            THEN 1 ELSE 0)

\* the initialization banner of NewNode, under !n.quietMode
LinesOfNewNode(m) == IF ~m.quietMode THEN 1 ELSE 0

\* out is the identifier and the error the quiet generator last returned
InitQuiet ==
    /\ n \in {NewNode(nodeID, strict) : nodeID \in NodeIDs, strict \in BOOLEAN}
    /\ peer = WithQuietMode(n, TRUE)
    /\ issued = <<{}, {}>>
    /\ clockWarningCount = <<0, 0>>
    /\ logged = <<LinesOfNewNode(n), LinesOfNewNode(peer)>>
    /\ InitHistory
    /\ InitThreads
    /\ arg = <<>>
    /\ out = <<[id |-> Zero, err |-> "nil"]>>

\* Generate on both.  fresh is what the wait loop of the loud generator
\* gets from the readings of the clock; the step is taken where the same
\* readings give the quiet generator the same
GenerateOnBoth ==
    /\ started < MaxQuietCalls
    /\ \E idType \in Types :
       \E sample \in TimesFor(idType) :
          \E fresh \in WaitOutcomesOf(n, sample) :
             /\ Wraps(peer, sample) => fresh \in WaitOutcomesOf(peer, sample)
             /\ Returned("Generate", idType, sample,
                         Generate(n, idType, sample, fresh), FALSE)
             /\ LET q == Generate(peer, idType, sample, fresh)
                IN  /\ peer' = q.n
                    /\ out' = <<[id |-> q.id, err |-> q.err]>>
             /\ clockWarningCount' =
                   <<WarningCount(n, idType, sample, clockWarningCount[1]),
                     WarningCount(peer, idType, sample, clockWarningCount[2])>>
             /\ logged' =
                   <<logged[1] + LinesOfGenerate(n, idType, sample, fresh),
                     logged[2] + LinesOfGenerate(peer, idType, sample, fresh)>>
    /\ started' = started + 1
    /\ UNCHANGED <<mu, pc, call, held, method, attempts, arg, issued>>

\* GenerateWithTimestamp on both; it writes nothing to the log
GenerateWithTimestampOnBoth ==
    /\ started < MaxQuietCalls
    /\ \E idType \in Types :
       \E now \in TimesFor(idType) :
          /\ Returned("GenerateWithTimestamp", idType, now,
                      GenerateWithTimestamp(n, idType, now), FALSE)
          /\ LET q == GenerateWithTimestamp(peer, idType, now)
             IN  /\ peer' = q.n
                 /\ out' = <<[id |-> q.id, err |-> q.err]>>
    /\ started' = started + 1
    /\ UNCHANGED <<mu, pc, call, held, method, attempts, arg, issued,
                   clockWarningCount, logged>>

NextQuiet == GenerateOnBoth \/ GenerateWithTimestampOnBoth

SpecQuiet == InitQuiet /\ [][NextQuiet]_vars

----------------------------------------------------------------------------
(* the bit layout as a pure function *)

\* the fields that are packed: all within their declared widths
LayoutTypes == {0, 1, 512, TypeMax}

LayoutOffsets == {Zero, W(1), Epoch, Shl(W(1), TimestampBits - 1), TimestampMax}

LayoutSeqs == {0, 1, 512, SeqMax}

InitLayout ==
    /\ n = NewNode(0, TRUE)
    /\ InitHistory
    /\ InitThreads
    /\ InitPeer
    /\ arg \in {<<idType, ts, node, seq>> :
                  idType \in LayoutTypes, ts \in LayoutOffsets,
                  node \in 0..NodeMax, seq \in LayoutSeqs}
    /\ out = <<>>

\* pack the four fields and extract them again
PackUnpack ==
    /\ out = <<>>
    /\ \E id \in {Pack(arg[1], arg[2], arg[3], arg[4])} :
          out' = <<id, ID_Type(id), TimestampOffset(id), ID_Node(id), ID_Seq(id)>>
    /\ UNCHANGED <<genVars, conVars, arg, peerVars>>

SpecLayout == InitLayout /\ [][PackUnpack]_vars

----------------------------------------------------------------------------
(* uint64 arithmetic on words, for the text encodings *)

\* math.MaxUint64
MaxUint64 == 0..SignBit

\* math.MaxInt64
MaxInt64 == 0..(SignBit - 1)

\* -x on int64 (wraps)
Neg(x) == Inc((0..SignBit) \ x)

\* the 16 bits of x from bit lo up, as a number
Limb(x, lo) ==
    LET Bit(j) == IF (lo + j) \in x THEN 2^j ELSE 0
    IN  (((Bit(0) + Bit(1)) + (Bit(2) + Bit(3)))
         + ((Bit(4) + Bit(5)) + (Bit(6) + Bit(7))))
        + (((Bit(8) + Bit(9)) + (Bit(10) + Bit(11)))
           + ((Bit(12) + Bit(13)) + (Bit(14) + Bit(15))))

\* a uint64 in the loops of the encoders and decoders: its four limbs of
\* 16 bits, the least significant first
Limbs(x) == <<Limb(x, 0), Limb(x, 16), Limb(x, 32), Limb(x, 48)>>

\* the word of four limbs
Word(l) ==
    Or(Or(Shl(W(l[4]), 48), Shl(W(l[3]), 32)), Or(Shl(W(l[2]), 16), W(l[1])))

\* uint64 0
ZeroLimbs == <<0, 0, 0, 0>>

\* math.MaxUint64 and math.MaxInt64 as uint64
MaxUint64Limbs == <<65535, 65535, 65535, 65535>>

MaxInt64Limbs == <<65535, 65535, 65535, 32767>>

\* unsigned x < y on limbs: the highest limb in which they differ is less
LimbsLess(x, y) ==
    \E i \in 1..4 : x[i] < y[i] /\ \A j \in (i + 1)..4 : x[j] = y[j]

\* x*k + d on uint64, x in limbs, k and d small non-negative integers:
\* v is the 64 bits of the result and carry what went past them
MulAdd(x, k, d) ==
    LET t0 == x[1] * k + d
        t1 == x[2] * k + (t0 \div 65536)
        t2 == x[3] * k + (t1 \div 65536)
        t3 == x[4] * k + (t2 \div 65536)
    IN  [v |-> <<t0 % 65536, t1 % 65536, t2 % 65536, t3 % 65536>>,
         carry |-> t3 \div 65536]

\* x / d and x % d on uint64, x in limbs, d a small positive integer: long
\* division, the most significant limb first
DivMod(x, d) ==
    LET t3 == x[4]
        t2 == (t3 % d) * 65536 + x[3]
        t1 == (t2 % d) * 65536 + x[2]
        t0 == (t1 % d) * 65536 + x[1]
        Reversed(m) == <<m[4], m[3], m[2], m[1]>>
    IN  [q |-> Reversed(<<t3 \div d, t2 \div d, t1 \div d, t0 \div d>>),
         r |-> t0 % d]

----------------------------------------------------------------------------
(* the text encodings; a string is a sequence of one-character strings *)

encodeBase32Map ==
    <<"y", "b", "n", "d", "r", "f", "g", "8", "e", "j", "k", "m", "c", "p",
      "q", "x", "o", "t", "1", "u", "w", "i", "s", "z", "a", "3", "4", "5",
      "h", "7", "6", "9">>

encodeBase58Map ==
    <<"1", "2", "3", "4", "5", "6", "7", "8", "9", "a", "b", "c", "d", "e",
      "f", "g", "h", "i", "j", "k", "m", "n", "o", "p", "q", "r", "s", "t",
      "u", "v", "w", "x", "y", "z", "A", "B", "C", "D", "E", "F", "G", "H",
      "J", "K", "L", "M", "N", "P", "Q", "R", "S", "T", "U", "V", "W", "X",
      "Y", "Z">>

\* the alphabet of base64.RawURLEncoding
encodeURL ==
    <<"A", "B", "C", "D", "E", "F", "G", "H", "I", "J", "K", "L", "M", "N",
      "O", "P", "Q", "R", "S", "T", "U", "V", "W", "X", "Y", "Z", "a", "b",
      "c", "d", "e", "f", "g", "h", "i", "j", "k", "l", "m", "n", "o", "p",
      "q", "r", "s", "t", "u", "v", "w", "x", "y", "z", "0", "1", "2", "3",
      "4", "5", "6", "7", "8", "9", "-", "_">>

\* the digits of strconv, bases 2 to 10
digits == <<"0", "1", "2", "3", "4", "5", "6", "7", "8", "9">>

\* decodeBase32Map and decodeBase58Map as init() fills them: the index of
\* the character in the alphabet, 0xFF for every other character
decodeMap(alphabet, char) ==
    IF \E i \in 1..Len(alphabet) : alphabet[i] = char
    THEN (CHOOSE i \in 1..Len(alphabet) : alphabet[i] = char) - 1
    ELSE 255

\* the string of k characters c
Repeat(c, k) == [i \in 1..k |-> c]

\* the loop of ID.Base32 and ID.Base58, and of strconv for base 10, on the
\* uint64 u (n in the code): buf[i] = alphabet[n%base]; n /= base from the
\* last character back, while n > 0
RECURSIVE DigitsFrom(_, _, _)
DigitsFrom(u, base, alphabet) ==
    IF u = ZeroLimbs THEN <<>>
    ELSE Append(DigitsFrom(DivMod(u, base).q, base, alphabet),
                alphabet[DivMod(u, base).r + 1])

Digits(x, base, alphabet) == DigitsFrom(Limbs(x), base, alphabet)

\* Base32 without the case of 0
Base32OfDigits(id) == Digits(id, 32, encodeBase32Map)

\* ID.Base32
Base32(id) ==
    IF id = Zero THEN <<encodeBase32Map[1]>>
    ELSE Digits(id, 32, encodeBase32Map)

\* ID.Base58
Base58(id) ==
    IF id = Zero THEN <<encodeBase58Map[1]>>
    ELSE Digits(id, 58, encodeBase58Map)

\* what a decoder returns: the ID and the error
Parsed(id, err) == [id |-> id, err |-> err]

\* AccumulateStep without the uint64 overflow test
AccumulateStepUnchecked(acc, s, i, alphabet, base, err) ==
    IF i > Len(s) \/ acc.err # "nil" THEN acc
    ELSE LET decodedByte == decodeMap(alphabet, s[i])
         IN  IF decodedByte = 255 THEN Parsed(ZeroLimbs, err)
             ELSE Parsed(MulAdd(acc.id, base, decodedByte).v, "nil")

\* one round of the loop of ParseBase32 and ParseBase58, on character i
\* with acc.id the uint64 val so far: unknown character, overflow test,
\* val = val*base + decodedByte.  math.MaxUint64 - decodedByte borrows
\* nothing: it is the complement of decodedByte.  A round after the end of
\* the string or after an error changes nothing
AccumulateStep(acc, s, i, alphabet, base, err) ==
    IF i > Len(s) \/ acc.err # "nil" THEN acc
    ELSE LET decodedByte == decodeMap(alphabet, s[i])
         IN  IF decodedByte = 255 THEN Parsed(ZeroLimbs, err)
             ELSE IF LimbsLess(
                        DivMod([MaxUint64Limbs EXCEPT ![1] = @ - decodedByte],
                               base).q,
                        acc.id)
             THEN Parsed(ZeroLimbs, err)
             ELSE Parsed(MulAdd(acc.id, base, decodedByte).v, "nil")

\* the loop from character i on
RECURSIVE AccumulateFrom(_, _, _, _, _, _)
AccumulateFrom(acc, s, i, alphabet, base, err) ==
    IF i > Len(s) \/ acc.err # "nil" THEN acc
    ELSE AccumulateFrom(AccumulateStep(acc, s, i, alphabet, base, err),
                        s, i + 1, alphabet, base, err)

\* ParseBase32 and ParseBase58, which differ in the alphabet, the base, the
\* longest string and the error
ParseBase(s, alphabet, base, longest, err) ==
    IF Len(s) = 0 THEN Parsed(Zero, err)
    ELSE IF Len(s) > longest THEN Parsed(Zero, err)
    ELSE LET Checked(acc) ==
                 IF acc.err # "nil" THEN Parsed(Zero, err)
                 ELSE IF LimbsLess(MaxInt64Limbs, acc.id) THEN Parsed(Zero, err)
                 ELSE Parsed(Word(acc.id), "nil")
         IN  Checked(AccumulateFrom(Parsed(ZeroLimbs, "nil"), s, 1,
                                     alphabet, base, err))

ParseBase32(s) == ParseBase(s, encodeBase32Map, 32, 13, "ErrInvalidBase32")

ParseBase58(s) == ParseBase(s, encodeBase58Map, 58, 11, "ErrInvalidBase58")

\* the binary digits of x > 0, the highest one-bit first
Binary(x) ==
    LET len == 1 + CHOOSE i \in x : \A j \in x : j <= i
    IN  [k \in 1..len |-> IF (len - k) \in x THEN "1" ELSE "0"]

\* strconv.FormatUint: the digits of x in the base, "0" for zero; base 2
\* is done by shifting
FormatBits(x, base) ==
    IF x = Zero THEN <<digits[1]>>
    ELSE IF base = 2 THEN Binary(x)
    ELSE Digits(x, base, digits)

\* strconv.FormatInt(i, base): a minus sign and the magnitude when i < 0
FormatInt(i, base) ==
    (IF SignBit \in i THEN <<"-">> ELSE <<>>)
    \o FormatBits(IF SignBit \in i THEN Neg(i) ELSE i, base)

\* one round of the loop of strconv.ParseUint(s, base, 64), on character
\* i with acc.id the value so far: a character that is no digit of the
\* base is a syntax error, a value above MaxUint64 a range error.  A round
\* after the end of the string or after an error changes nothing
ParseUintStep(acc, s, i, base) ==
    IF i > Len(s) \/ acc.err # "nil" THEN acc
    ELSE LET d == decodeMap(digits, s[i])
             cutoff == MulAdd(DivMod(MaxUint64Limbs, base).q, 1, 1).v
             Added(n1) ==
                 IF LimbsLess(n1, MulAdd(acc.id, base, 0).v)
                 THEN Parsed(MaxUint64Limbs, "ErrRange")
                 ELSE Parsed(n1, "nil")
         IN  IF d >= base THEN Parsed(ZeroLimbs, "ErrSyntax")
             ELSE IF ~LimbsLess(acc.id, cutoff)
             THEN Parsed(MaxUint64Limbs, "ErrRange")
             ELSE Added(MulAdd(acc.id, base, d).v)

\* eight rounds, from character i on
ParseUintRounds(acc, s, i, base) ==
    LET a1 == ParseUintStep(acc, s, i, base)
        a2 == ParseUintStep(a1, s, i + 1, base)
        a3 == ParseUintStep(a2, s, i + 2, base)
        a4 == ParseUintStep(a3, s, i + 3, base)
        a5 == ParseUintStep(a4, s, i + 4, base)
        a6 == ParseUintStep(a5, s, i + 5, base)
        a7 == ParseUintStep(a6, s, i + 6, base)
        a8 == ParseUintStep(a7, s, i + 7, base)
    IN  <<a1, a2, a3, a4, a5, a6, a7, a8>>[8]

\* the loop from character i on
RECURSIVE ParseUintFrom(_, _, _, _)
ParseUintFrom(acc, s, i, base) ==
    IF acc.err # "nil" \/ i > Len(s) THEN acc
    ELSE ParseUintFrom(ParseUintRounds(acc, s, i, base), s, i + 8, base)

ParseUint(s, base) ==
    IF Len(s) = 0 THEN Parsed(Zero, "ErrSyntax")
    ELSE LET Result(acc) ==
                 IF acc.err = "ErrSyntax" THEN Parsed(Zero, "ErrSyntax")
                 ELSE Parsed(Word(acc.id), acc.err)
         IN  Result(ParseUintFrom(Parsed(ZeroLimbs, "nil"), s, 1, base))

\* strconv.ParseInt(s, base, 64): an optional sign, then ParseUint; the
\* magnitude is at most 2^63-1, or 2^63 after a minus sign
ParseInt(s, base) ==
    IF Len(s) = 0 THEN Parsed(Zero, "ErrSyntax")
    ELSE LET neg == s[1] = "-"
             rest == IF s[1] \in {"+", "-"} THEN SubSeq(s, 2, Len(s)) ELSE s
             cutoff == Shl(W(1), SignBit)
             Signed(un) ==
                 IF un.err = "ErrSyntax" THEN Parsed(Zero, "ErrSyntax")
                 ELSE IF ~neg /\ ~ULess(un.id, cutoff)
                 THEN Parsed(MaxInt64, "ErrRange")
                 ELSE IF neg /\ ULess(cutoff, un.id)
                 THEN Parsed(cutoff, "ErrRange")
                 ELSE Parsed(IF neg THEN Neg(un.id) ELSE un.id, "nil")
         IN  Signed(ParseUint(rest, base))

\* ID.String
String(id) == FormatInt(id, 10)

\* ParseString: the value of ParseInt, or 0 and the error
ParseString(s) ==
    LET Result(i) == IF i.err # "nil" THEN Parsed(Zero, i.err) ELSE i
    IN  Result(ParseInt(s, 10))

\* Base2 without the padding
Base2Unpadded(id) == FormatInt(id, 2)

\* ID.Base2: fmt.Sprintf("%063b", id): the sign if there is one, then the
\* binary digits with zeros in front up to a width of 63 in all
Base2(id) ==
    LET neg == SignBit \in id
        wid == IF neg THEN 62 ELSE 63
        Bits(u) == IF u = Zero THEN <<digits[1]>> ELSE Binary(u)
        Padded(bits) ==
            (IF Len(bits) < wid THEN Repeat("0", wid - Len(bits)) ELSE <<>>)
            \o bits
    IN  (IF neg THEN <<"-">> ELSE <<>>)
        \o Padded(Bits(IF neg THEN Neg(id) ELSE id))

\* ParseBase2
ParseBase2(s) ==
    LET Result(i) == IF i.err # "nil" THEN Parsed(Zero, i.err) ELSE i
    IN  Result(ParseInt(s, 2))

\* the six bits of x from bit hi down, as a number; positions below 0 are
\* the zero bits that fill up the last character
Sextet(x, hi) ==
    LET Bit(j) == IF (hi - 5 + j) \in x THEN 2^j ELSE 0
    IN  Bit(0) + Bit(1) + Bit(2) + Bit(3) + Bit(4) + Bit(5)

\* Base64 with the bytes in little-endian order
Base64LittleEndian(id) ==
    LET swapped == {8 * (7 - (b \div 8)) + (b % 8) : b \in id}
    IN  [k \in 1..11 |-> encodeURL[Sextet(swapped, SignBit - 6 * (k - 1)) + 1]]

\* ID.Base64: the 8 bytes of uint64(id), most significant first, six bits
\* to the character, without padding
Base64(id) ==
    [k \in 1..11 |-> encodeURL[Sextet(id, SignBit - 6 * (k - 1)) + 1]]

\* the bits that character k of a base-64 string contributes to the 8
\* bytes; the last two bits of the eleventh character are dropped
SextetBits(char, k) ==
    LET v == decodeMap(encodeURL, char)
        lo == SignBit - 6 * (k - 1) - 5
    IN  {lo + j : j \in {i \in 0..5 : (v \div (2^i)) % 2 = 1 /\ lo + i >= 0}}

\* ParseBase64.  base64.RawURLEncoding.DecodeString skips \r and \n,
\* fails on any other character outside the alphabet and on a length of
\* 1 modulo 4, and gives 6*len/8 bytes
ParseBase64(s) ==
    LET t == SelectSeq(s, LAMBDA c : c \notin {"\r", "\n"})
        val == UNION {SextetBits(t[k], k) : k \in 1..Len(t)}
    IN  IF \E k \in 1..Len(t) : decodeMap(encodeURL, t[k]) = 255
        THEN Parsed(Zero, "CorruptInputError")
        ELSE IF Len(t) % 4 = 1 THEN Parsed(Zero, "CorruptInputError")
        ELSE IF (6 * Len(t)) \div 8 # 8
        THEN Parsed(Zero, "ErrBase64InvalidLength")
        ELSE IF ULess(MaxInt64, val) THEN Parsed(Zero, "ErrOverflow")
        ELSE Parsed(val, "nil")

\* MarshalJSON without the quotes
MarshalJSONBare(id) == FormatInt(id, 10)

\* ID.MarshalJSON
MarshalJSON(id) == <<"\"">> \o FormatInt(id, 10) \o <<"\"">>

\* UnmarshalJSON with *id assigned before the test for a negative value
UnmarshalJSONEager(id, b) ==
    LET quoted == Len(b) >= 2 /\ b[1] = "\"" /\ b[Len(b)] = "\""
        Assigned(val) ==
            IF val.err # "nil" THEN Parsed(id, "ErrParse")
            ELSE IF SignBit \in val.id THEN Parsed(val.id, "ErrNegative")
            ELSE Parsed(val.id, "nil")
    IN  Assigned(ParseInt(IF quoted THEN SubSeq(b, 2, Len(b) - 1) ELSE b, 10))

\* ID.UnmarshalJSON on the target *id: the target after the call and the
\* error
UnmarshalJSON(id, b) ==
    LET quoted == Len(b) >= 2 /\ b[1] = "\"" /\ b[Len(b)] = "\""
        Assigned(val) ==
            IF val.err # "nil" THEN Parsed(id, "ErrParse")
            ELSE IF SignBit \in val.id THEN Parsed(id, "ErrNegative")
            ELSE Parsed(val.id, "nil")
    IN  Assigned(ParseInt(IF quoted THEN SubSeq(b, 2, Len(b) - 1) ELSE b, 10))

----------------------------------------------------------------------------
(* the text encodings as pure functions: a value is encoded and decoded
   again, or a text is decoded *)

\* idForEncodingTests of the test suite: 1234567890123456789
\* = (280708 * 2^21 + 500719) * 2^21 + 622869
idForEncodingTests == Or(Shl(W(280708), 42), Or(Shl(W(500719), 21), W(622869)))

\* the values that are encoded: 0 to 2^63-1, among them every power of two
\* and its predecessor, and the neighbours of the two bases
CodecValues ==
    {Zero, W(1), W(31), W(32), W(57), W(58), W(SeqMax), idForEncodingTests,
     Or(Shl(W(TypeMax), TypeShift), W(SeqMax)), MaxInt64}
    \cup {Shl(W(1), k) : k \in 0..(SignBit - 1)}
    \cup {Dec(Shl(W(1), k)) : k \in 1..(SignBit - 1)}

\* the texts given to ParseString: signs, non-digits, and the values next to
\* 2^63 and 2^64
DecimalTexts ==
    {<<>>,
     <<"-">>,
     <<"+">>,
     <<"0">>,
     <<"-", "0">>,
     <<"+", "5">>,
     <<"-", "5">>,
     <<"5">>,
     <<"0", "0", "7">>,
     <<"1", "a">>,
     <<"n", "o", "t", "_", "a", "_", "n", "u", "m", "b", "e", "r">>,
     <<" ", "1">>,
     <<"1", "_", "0">>,
     <<"1", ".", "5">>,
     <<"9", "2", "2", "3", "3", "7", "2", "0", "3", "6", "8", "5", "4", "7", "7", "5", "8", "0", "7">>,
     <<"+", "9", "2", "2", "3", "3", "7", "2", "0", "3", "6", "8", "5", "4", "7", "7", "5", "8", "0", "7">>,
     <<"9", "2", "2", "3", "3", "7", "2", "0", "3", "6", "8", "5", "4", "7", "7", "5", "8", "0", "8">>,
     <<"-", "9", "2", "2", "3", "3", "7", "2", "0", "3", "6", "8", "5", "4", "7", "7", "5", "8", "0", "8">>,
     <<"-", "9", "2", "2", "3", "3", "7", "2", "0", "3", "6", "8", "5", "4", "7", "7", "5", "8", "0", "9">>,
     <<"1", "8", "4", "4", "6", "7", "4", "4", "0", "7", "3", "7", "0", "9", "5", "5", "1", "6", "1", "5">>,
     <<"1", "8", "4", "4", "6", "7", "4", "4", "0", "7", "3", "7", "0", "9", "5", "5", "1", "6", "1", "6">>,
     <<"9", "9", "9", "9", "9", "9", "9", "9", "9", "9", "9", "9", "9", "9", "9", "9", "9", "9", "9", "9">>}

\* the texts given to ParseBase2; the long ones are 2^63-1, 2^63, 2^64-1,
\* 2^64, 1 after 64 zeros, and -2^63
BinaryTexts ==
    {<<>>,
     <<"0">>,
     <<"1">>,
     <<"-", "1">>,
     <<"+", "1">>,
     <<"-">>,
     <<"1", "0", "2">>,
     <<"1", " ">>,
     Repeat("1", 63),
     <<"1">> \o Repeat("0", 63),
     Repeat("1", 64),
     <<"1">> \o Repeat("0", 64),
     Repeat("0", 64) \o <<"1">>,
     <<"-", "1">> \o Repeat("0", 63)}

\* the texts given to ParseBase32; the long ones are 13 and 14 characters
\* of value 0, 2^60-1, 2^65-1, 2^63-1, 2^63, 2^64, 2^64+1, and 1 in 14
\* characters
Base32Texts ==
    {<<>>,
     <<"y">>,
     <<"b">>,
     <<"y", "b">>,
     <<"!", "@", "#">>,
     <<"0">>,
     <<"l">>,
     <<"Y">>,
     <<"b", " ", "b">>,
     Repeat("y", 13),
     Repeat("y", 14),
     Repeat("9", 12),
     Repeat("9", 13),
     <<"8">> \o Repeat("9", 12),
     <<"e">> \o Repeat("y", 12),
     <<"o">> \o Repeat("y", 12),
     <<"o">> \o Repeat("y", 11) \o <<"b">>,
     Repeat("y", 13) \o <<"b">>}

\* the texts given to ParseBase58; the long ones are 2^63-1, 2^63, 2^64-1,
\* 2^64, 2^64+1, 2^64+2^62, and 11 and 12 characters of value 0 and of the
\* largest digit
Base58Texts ==
    {<<>>,
     <<"1">>,
     <<"2">>,
     <<"1", "2">>,
     <<"0", "O", "I", "l">>,
     <<"0">>,
     <<"1", " ", "1">>,
     <<"n", "p", "L", "6", "M", "j", "P", "8", "Q", "f", "c">>,
     <<"n", "p", "L", "6", "M", "j", "P", "8", "Q", "f", "d">>,
     <<"J", "P", "w", "c", "y", "D", "C", "g", "E", "u", "p">>,
     <<"J", "P", "w", "c", "y", "D", "C", "g", "E", "u", "q">>,
     <<"J", "P", "w", "c", "y", "D", "C", "g", "E", "u", "r">>,
     <<"V", "w", "p", "f", "s", "j", "2", "Q", "z", "B", "w">>,
     Repeat("1", 11),
     Repeat("1", 12),
     Repeat("Z", 11),
     Repeat("Z", 12)}

\* the texts given to ParseBase64: 10 to 13 characters, bits set in the
\* part of the last character that is dropped, padding, the + of the
\* standard alphabet, line ends, and 2^63-1, 2^63, 2^64-1
Base64Texts ==
    {<<>>,
     <<"!", "@", "#">>,
     <<"s", "h", "o", "r", "t">>,
     <<"A", "A", "A", "A", "A", "A", "A", "A", "A", "A">>,
     <<"A", "A", "A", "A", "A", "A", "A", "A", "A", "A", "A">>,
     <<"A", "A", "A", "A", "A", "A", "A", "A", "A", "A", "B">>,
     <<"A", "A", "A", "A", "A", "A", "A", "A", "A", "A", "D">>,
     <<"A", "A", "A", "A", "A", "A", "A", "A", "A", "A", "A", "A">>,
     <<"A", "A", "A", "A", "A", "A", "A", "A", "A", "A", "A", "A", "A">>,
     <<"A", "A", "A", "A", "A", "A", "A", "A", "A", "A", "A", "=">>,
     <<"A", "A", "A", "A", "A", "A", "A", "A", "A", "A", "+">>,
     <<"A", "A", "A", "A", "A", "\n", "A", "A", "A", "A", "A", "E">>,
     <<"A", "A", "A", "A", "A", "A", "A", "A", "A", "A", "E", "\r", "\n">>,
     <<"f", "_", "_", "_", "_", "_", "_", "_", "_", "_", "8">>,
     <<"g", "A", "A", "A", "A", "A", "A", "A", "A", "A", "A">>,
     <<"_", "_", "_", "_", "_", "_", "_", "_", "_", "_", "8">>,
     <<"E", "S", "I", "Q", "9", "H", "3", "p", "g", "R", "U">>}

\* the bytes given to UnmarshalJSON: quoted and bare, negative values,
\* booleans, null, fractions, and the values next to 2^63
JSONTexts ==
    {<<"\"", "1", "2", "3", "\"">>,
     <<"1", "2", "3">>,
     <<"\"", "-", "1", "2", "3", "\"">>,
     <<"-", "1", "2", "3">>,
     <<"\"", "-", "0", "\"">>,
     <<"t", "r", "u", "e">>,
     <<"f", "a", "l", "s", "e">>,
     <<"n", "u", "l", "l">>,
     <<"1", "2", "3", ".", "4", "5", "6">>,
     <<"\"", "1", "2", "3", ".", "4", "5", "6", "\"">>,
     <<"\"", "n", "o", "t", "_", "a", "_", "n", "u", "m", "b", "e", "r", "\"">>,
     <<"\"", "\"">>,
     <<"\"">>,
     <<>>,
     <<"\"", "+", "5", "\"">>,
     <<"+", "5">>,
     <<"\"", "0", "\"">>,
     <<"0">>,
     <<"1", "e", "3">>,
     <<" ", "1">>,
     <<"\"", "9", "2", "2", "3", "3", "7", "2", "0", "3", "6", "8", "5", "4", "7", "7", "5", "8", "0", "7", "\"">>,
     <<"9", "2", "2", "3", "3", "7", "2", "0", "3", "6", "8", "5", "4", "7", "7", "5", "8", "0", "7">>,
     <<"\"", "9", "2", "2", "3", "3", "7", "2", "0", "3", "6", "8", "5", "4", "7", "7", "5", "8", "0", "8", "\"">>,
     <<"\"", "-", "9", "2", "2", "3", "3", "7", "2", "0", "3", "6", "8", "5", "4", "7", "7", "5", "8", "0", "8", "\"">>,
     <<"-", "1">>,
     <<"\"", "-", "1", "\"">>}

\* the formats and the texts decoded in each
Formats == {"String", "Base2", "Base32", "Base58", "Base64", "JSON"}

TextsOf(f) ==
    CASE f = "String" -> DecimalTexts
      [] f = "Base2" -> BinaryTexts
      [] f = "Base32" -> Base32Texts
      [] f = "Base58" -> Base58Texts
      [] f = "Base64" -> Base64Texts
      [] f = "JSON" -> JSONTexts

\* the values that the target of UnmarshalJSON holds before the call
Targets == {Zero, W(7)}

\* the encoder of a format
Encoded(f, id) ==
    CASE f = "String" -> String(id)
      [] f = "Base2" -> Base2(id)
      [] f = "Base32" -> Base32(id)
      [] f = "Base58" -> Base58(id)
      [] f = "Base64" -> Base64(id)
      [] f = "JSON" -> MarshalJSON(id)

\* no decoder has run
NotRun == [f |-> "none", text |-> <<>>, id |-> Zero, err |-> "nil"]

\* arg is a value to encode (kind "value") or a text to decode (kind: its
\* format); out becomes the format, the text, and the ID and error decoded
InitCodec ==
    /\ arg \in {[kind |-> "value", v |-> v, text |-> <<>>, target |-> target] :
                   v \in CodecValues, target \in Targets}
               \cup UNION {{[kind |-> f, v |-> Zero, text |-> s, target |-> target] :
                              s \in TextsOf(f),
                              target \in IF f = "JSON" THEN Targets ELSE {Zero}} :
                           f \in Formats}
    /\ out = NotRun
    /\ n = NewNode(0, TRUE)
    /\ InitHistory
    /\ InitThreads
    /\ InitPeer

\* a decoder of format f has run on the text s and returned d
Ran(f, s, d) ==
    /\ out' = [f |-> f, text |-> s, id |-> d.id, err |-> d.err]
    /\ UNCHANGED <<genVars, conVars, arg, peerVars>>

\* encode the value in a format and decode the result; UnmarshalJSON writes
\* to the target
EncodeDecode ==
    /\ arg.kind = "value"
    /\ out = NotRun
    /\ LET OfString(s) == Ran("String", s, ParseString(s))
           OfBase2(s) == Ran("Base2", s, ParseBase2(s))
           OfBase32(s) == Ran("Base32", s, ParseBase32(s))
           OfBase58(s) == Ran("Base58", s, ParseBase58(s))
           OfBase64(s) == Ran("Base64", s, ParseBase64(s))
           OfJSON(s) == Ran("JSON", s, UnmarshalJSON(arg.target, s))
       IN  \/ OfString(String(arg.v))
           \/ OfBase2(Base2(arg.v))
           \/ OfBase32(Base32(arg.v))
           \/ OfBase58(Base58(arg.v))
           \/ OfBase64(Base64(arg.v))
           \/ OfJSON(MarshalJSON(arg.v))

\* hand UnmarshalJSON the value as a bare decimal number
UnmarshalNumber ==
    /\ arg.kind = "value"
    /\ out = NotRun
    /\ LET Handed(s) == Ran("Number", s, UnmarshalJSON(arg.target, s))
       IN  Handed(FormatInt(arg.v, 10))

\* decode the text
Decode ==
    /\ arg.kind # "value"
    /\ out = NotRun
    /\ \/ arg.kind = "String" /\ Ran("String", arg.text, ParseString(arg.text))
       \/ arg.kind = "Base2" /\ Ran("Base2", arg.text, ParseBase2(arg.text))
       \/ arg.kind = "Base32" /\ Ran("Base32", arg.text, ParseBase32(arg.text))
       \/ arg.kind = "Base58" /\ Ran("Base58", arg.text, ParseBase58(arg.text))
       \/ arg.kind = "Base64" /\ Ran("Base64", arg.text, ParseBase64(arg.text))
       \/ arg.kind = "JSON"
          /\ Ran("JSON", arg.text, UnmarshalJSON(arg.target, arg.text))

NextCodec ==
    \/ EncodeDecode
    \/ UnmarshalNumber
    \/ Decode

SpecCodec == InitCodec /\ [][NextCodec]_vars

----------------------------------------------------------------------------
(* the numeric order of two packed identifiers *)

\* two sets of four fields, each field within its declared width
InitOrder ==
    /\ n = NewNode(0, TRUE)
    /\ InitHistory
    /\ InitThreads
    /\ InitPeer
    /\ arg \in LET Fields == {<<idType, ts, node, seq>> :
                                idType \in LayoutTypes, ts \in LayoutOffsets,
                                node \in 0..NodeMax, seq \in LayoutSeqs}
               IN  Fields \X Fields
    /\ out = <<>>

\* pack each of the two
PackBoth ==
    /\ out = <<>>
    /\ out' = <<Pack(arg[1][1], arg[1][2], arg[1][3], arg[1][4]),
                Pack(arg[2][1], arg[2][2], arg[2][3], arg[2][4])>>
    /\ UNCHANGED <<genVars, conVars, arg, peerVars>>

SpecOrder == InitOrder /\ [][PackBoth]_vars

----------------------------------------------------------------------------
(* the extractors on values that no generator packed *)

\* arg is a value of 0..2^63-1: the values that are encoded, and every run
\* of one-bits that ends at bit 62
InitFields ==
    /\ n = NewNode(0, TRUE)
    /\ InitHistory
    /\ InitThreads
    /\ InitPeer
    /\ arg \in CodecValues
                 \cup {Shl(Dec(Shl(W(1), k)), SignBit - k) : k \in 1..(SignBit - 1)}
    /\ out = <<>>

\* ID.Type, the timestamp offset of ID.Time and ID.Components, ID.Node and
\* ID.Seq of the value
Extract ==
    /\ out = <<>>
    /\ out' = <<ID_Type(arg), TimestampOffset(arg), ID_Node(arg), ID_Seq(arg)>>
    /\ UNCHANGED <<genVars, conVars, arg, peerVars>>

SpecFields == InitFields /\ [][Extract]_vars

----------------------------------------------------------------------------
(* the HTTP service of examples/service: one Node behind three handlers.
   n is s.node; arg is the configuration NODE_ID and the wall clock, as a
   millisecond offset from the epoch; out is what the service wrote last:
   the lines of Start or the response to a request *)

\* NewServer: the Node is strict and quiet
NewServer(nodeID) == WithQuietMode(NewNode(nodeID, TRUE), TRUE)

\* sendError: the status code and no data
sendError(m, statusCode) ==
    [n |-> m, status |-> statusCode, ids |-> <<>>, node_id |-> <<>>,
     last_id |-> <<>>]

\* sendSuccess: 200 and the data, which is the identifiers of /generate or
\* node_id (and last_id) of /health and /info
sendSuccess(m, ids, node_id, last_id) ==
    [n |-> m, status |-> 200, ids |-> ids, node_id |-> node_id,
     last_id |-> last_id]

\* the loop of generateHandler, k iterations of it: the first half of them
\* and then the rest, each iteration one Generate call that ends the loop
\* when it fails.  The clock reads now at every call, and when a call waits
\* for the next millisecond the clock gets there
RECURSIVE GenerateIDs(_, _, _, _, _)
GenerateIDs(m, idType, now, k, results) ==
    IF k = 0 THEN [n |-> m, ids |-> results, err |-> "nil"]
    ELSE IF k = 1
    THEN LET Appended(o) ==
                 [n |-> o.n,
                  ids |-> IF o.err = "nil" THEN Append(results, o.id)
                          ELSE results,
                  err |-> o.err]
         IN  Appended(Generate(m, idType, now, Inc(ClampedNow(m, now))))
    ELSE LET Rest(g) ==
                 IF g.err # "nil" THEN g
                 ELSE GenerateIDs(g.n, idType, now, k - (k \div 2), g.ids)
         IN  Rest(GenerateIDs(m, idType, now, k \div 2, results))

\* generateHandler; id_type and count are the fields of the JSON body or
\* the query parameters, <<>> when the request has neither
generateHandler(m, verb, id_type, count, now) ==
    IF verb # "POST" THEN sendError(m, 405)
    ELSE LET idType == IF id_type # <<>> THEN id_type[1] ELSE 0
             requested == IF count # <<>> /\ count[1] > 0 THEN count[1] ELSE 1
             Sent(g) == IF g.err # "nil" THEN sendError(g.n, 500)
                        ELSE sendSuccess(g.n, g.ids, <<>>, <<>>)
         IN  IF requested > 100 THEN sendError(m, 400)
             ELSE IF idType < 0 \/ idType > 1023 THEN sendError(m, 400)
             ELSE Sent(GenerateIDs(m, idType, now, requested, <<>>))

\* healthHandler: it generates an identifier of category 0
healthHandler(m, verb, now) ==
    IF verb # "GET" THEN sendError(m, 405)
    ELSE LET Sent(o) ==
                 IF o.err # "nil" THEN sendError(o.n, 500)
                 ELSE sendSuccess(o.n, <<>>, <<ID_Node(o.id)>>,
                                  <<String(o.n.lastID)>>)
         IN  Sent(Generate(m, 0, now, Inc(ClampedNow(m, now))))

\* infoHandler: node_id is s.node.LastID().Node()
infoHandler(m, verb) ==
    IF verb # "GET" THEN sendError(m, 405)
    ELSE sendSuccess(m, <<>>, <<ID_Node(m.lastID)>>, <<>>)

\* the requests the service answers in a run
MaxRequests == 2

Methods == {"GET", "POST"}

\* id_type of a request: absent, the ends of 0..1023 and their neighbours
RequestTypes == {<<>>, <<-1>>, <<0>>, <<1>>, <<1023>>, <<1024>>}

\* count of a request: absent, the ends of 1..100 and their neighbours
RequestCounts == {<<>>, <<0>>, <<1>>, <<2>>, <<100>>, <<101>>}

\* main has read NODE_ID, which is 0..3, and NewServer has returned; the
\* clock is past the epoch
InitService ==
    /\ arg \in {[NODE_ID |-> nodeID, now |-> W(1)] : nodeID \in 0..NodeMax}
    /\ n = NewServer(arg.NODE_ID)
    /\ out = [endpoint |-> "none"]
    /\ InitHistory
    /\ InitThreads
    /\ InitPeer

\* Server.Start: the line "Node ID: %d" with s.node.LastID().Node(), then
\* the service listens
Start ==
    /\ out.endpoint = "none"
    /\ out' = [endpoint |-> "Start", method |-> "", id_type |-> <<>>,
               count |-> <<>>, status |-> 0, ids |-> <<>>,
               node_id |-> <<ID_Node(n.lastID)>>, last_id |-> <<>>]
    /\ UNCHANGED <<genVars, conVars, arg, peerVars>>

\* the service has answered a request with the response sent, at the clock
\* reading now
Answered(endpoint, verb, id_type, count, now, sent) ==
    /\ n' = sent.n
    /\ out' = [endpoint |-> endpoint, method |-> verb, id_type |-> id_type,
               count |-> count, status |-> sent.status, ids |-> sent.ids,
               node_id |-> sent.node_id, last_id |-> sent.last_id]
    /\ arg' = [arg EXCEPT !.now = IF SLess(now, sent.n.time)
                                  THEN sent.n.time ELSE now]
    /\ started' = started + 1
    /\ UNCHANGED <<ret, fails, issuedTop, first, streak, lastOk, mu, pc, call,
                   held, method, attempts, peerVars>>

\* a request to /generate; the clock has not gone back since the last
\* request
RequestGenerate ==
    /\ out.endpoint # "none"
    /\ started < MaxRequests
    /\ \E verb \in Methods, id_type \in RequestTypes, count \in RequestCounts,
          now \in {arg.now, Inc(arg.now)} :
          Answered("/generate", verb, id_type, count, now,
                   generateHandler(n, verb, id_type, count, now))

\* a request to /health
RequestHealth ==
    /\ out.endpoint # "none"
    /\ started < MaxRequests
    /\ \E verb \in Methods, now \in {arg.now, Inc(arg.now)} :
          Answered("/health", verb, <<>>, <<>>, now,
                   healthHandler(n, verb, now))

\* a request to /info
RequestInfo ==
    /\ out.endpoint # "none"
    /\ started < MaxRequests
    /\ \E verb \in Methods, now \in {arg.now, Inc(arg.now)} :
          Answered("/info", verb, <<>>, <<>>, now, infoHandler(n, verb))

NextService == Start \/ RequestGenerate \/ RequestHealth \/ RequestInfo

SpecService == InitService /\ [][NextService]_vars

----------------------------------------------------------------------------
(* the claims *)

Succeeded(r) == r.op # "none" /\ r.err = "nil"

\* C1: with strict monotonicity enabled, every successful Generate or
\* GenerateWithTimestamp call returns an identifier that is greater, as a
\* signed integer, than every identifier the generator returned before.
C1_StrictlyIncreasing ==
    [][(n.strictMonotonicityChecks /\ Succeeded(ret'))
          => \A x \in issuedTop : SLess(x, ret'.id)]_vars

\* a strict generator has returned the fourth identifier of a millisecond,
\* the largest it has returned
C1_Witness ==
    /\ n.strictMonotonicityChecks
    /\ Succeeded(ret)
    /\ n.seq = 3
    /\ issuedTop = {ret.id}

\* C2: when several threads call Generate on one Node with strict
\* monotonicity enabled, the identifiers of the successful calls increase
\* strictly in the order in which the calls took the lock; so they are
\* pairwise distinct.
C2_LockOrder ==
    n.strictMonotonicityChecks
       => \A i, j \in 1..Len(held) :
             (i < j /\ held[i].err = "nil" /\ held[j].err = "nil")
                => SLess(held[i].id, held[j].id)

\* the calls of two threads have returned identifiers, and a thread is
\* blocked in Lock while another holds the lock
C2_Witness ==
    /\ n.strictMonotonicityChecks
    /\ \E i, j \in 1..Len(held) :
          /\ held[i].thread # held[j].thread
          /\ held[i].err = "nil" /\ held[j].err = "nil"
    /\ mu # 0
    /\ \E t \in Threads : pc[t] = "lock"

\* C3: a generator with strict monotonicity disabled that is used through
\* Generate alone never returns an identifier twice; stated for the first
\* identifier it returned: no later successful call returns it again.
C3_NoDuplicate ==
    [][(~n.strictMonotonicityChecks /\ ret'.op = "Generate" /\ Succeeded(ret'))
          => ret'.id \notin first]_vars

\* C4: on a fresh generator the first SeqMax + 1 GenerateWithTimestamp calls
\* at one in-range timestamp succeed, the i-th (from 0) with sequence i,
\* and the next one fails with ErrClockNotAdvancing.
C4_FixedTimestampSequence ==
    /\ (streak >= 1 /\ streak <= SeqMax + 1)
          => (ret.err = "nil" /\ ID_Seq(ret.id) = W(streak - 1))
    /\ streak = SeqMax + 2 => ret.err = "ErrClockNotAdvancing"

\* C5: a call that returns an error leaves n.time, n.seq and n.lastID as
\* they were before the call.
C5_ErrorLeavesState ==
    [][ret'.err # "nil"
          => (n'.time = n.time /\ n'.seq = n.seq /\ n'.lastID = n.lastID)]_vars

\* C6: with strict monotonicity enabled, no Generate call with a valid
\* category fails with ErrMonotonicityViolation.
C6_ViolationUnreachable ==
    ~(/\ n.strictMonotonicityChecks
      /\ ret.op = "Generate"
      /\ ret.idType <= TypeMax
      /\ ret.err = "ErrMonotonicityViolation")

\* C7 as claimed: GenerateWithTimestamp fails only for an out-of-range
\* category or for sequence exhaustion at the supplied millisecond.
C7_OnlyTwoErrors ==
    ret.op = "GenerateWithTimestamp"
       => \/ ret.err = "nil"
          \/ ret.err = "ErrInvalIDType" /\ ret.idType > TypeMax
          \/ ret.err = "ErrClockNotAdvancing"

\* C7 as amended: GenerateWithTimestamp fails exactly in four cases: the
\* category is above TypeMax; else the timestamp is the recorded millisecond
\* and the sequence is at SeqMax; else the timestamp offset is above
\* TimestampMax; else strict monotonicity is enabled and the value packed
\* from the category, the timestamp, the node and the next sequence is not
\* above the last identifier.  In every other case it returns that value.
C7_Expected(m, idType, ts) ==
    LET seq == IF ts = m.time THEN m.seq + 1 ELSE 0
        id  == Pack(idType, ts, m.node, seq)
    IN  IF idType > TypeMax THEN <<"ErrInvalIDType", Zero>>
        ELSE IF ts = m.time /\ m.seq = SeqMax THEN <<"ErrClockNotAdvancing", Zero>>
        ELSE IF ~SLeq(ts, TimestampMax) THEN <<"ErrTimestampOverflow", Zero>>
        ELSE IF m.strictMonotonicityChecks /\ ~SLess(m.lastID, id)
        THEN <<"ErrMonotonicityViolation", Zero>>
        ELSE <<"nil", id>>

C7_FourErrors ==
    [][ret'.op = "GenerateWithTimestamp"
          => <<ret'.err, ret'.id>> = C7_Expected(n, ret'.idType, ret'.ts)]_vars

\* GenerateWithTimestamp has failed with the timestamp-overflow error
C7_Witness ==
    ret.op = "GenerateWithTimestamp" /\ ret.err = "ErrTimestampOverflow"

\* C8: every identifier a successful call returns is in [0, 2^63 - 1]: its
\* sign bit is zero.
C8_NonNegative == Succeeded(ret) => SignBit \notin ret.id

\* C9: the identifier a successful call with category c returns is
\* (c << 53) | (ts << 12) | (node << 10) | seq for the recorded timestamp
\* offset ts and sequence seq after the call, and Components of it is
\* (c, ts + Epoch, node, seq).
C9_LayoutAndComponents ==
    Succeeded(ret)
       => /\ ret.id = Or(Or(Or(Shl(W(ret.idType), 53), Shl(n.time, 12)),
                            Shl(W(n.node), 10)),
                         W(n.seq))
          /\ Components(ret.id)
                = <<W(ret.idType), Add(n.time, Epoch), W(n.node), W(n.seq)>>

\* C10: for fields within their declared widths, Type, the timestamp
\* offset, Node and Seq of the packed value are those four fields; and
\* (1, 0, 0, 0) packs to 9007199254740992 = 1 << 53, the word with bit 53
\* alone, which unpacks to (1, 0, 0, 0).
C10_FieldRoundTrip ==
    out # <<>>
       => /\ <<out[2], out[3], out[4], out[5]>>
                = <<W(arg[1]), arg[2], W(arg[3]), W(arg[4])>>
          /\ arg = <<1, Zero, 0, 0>> => out[1] = {53}

\* a value with every field at its maximum was packed and unpacked
C10_Witness ==
    /\ arg = <<TypeMax, TimestampMax, NodeMax, SeqMax>>
    /\ out # <<>>
    /\ out[1] = 0..62

\* the calls in held that returned an identifier they generated
Generated(h) == h.op # "LastID" /\ h.err = "nil"

\* C11: with strict monotonicity disabled no call fails with
\* ErrMonotonicityViolation, and the identifier of the latest successful
\* Generate or GenerateWithTimestamp call is the last identifier, whether
\* or not it is above the one before.
C11_NoViolationWhenOff ==
    ~n.strictMonotonicityChecks
       => /\ ret.err # "ErrMonotonicityViolation"
          /\ \A i \in 1..Len(held) :
                /\ held[i].err # "ErrMonotonicityViolation"
                /\ (/\ Generated(held[i])
                    /\ \A j \in (i + 1)..Len(held) : ~Generated(held[j]))
                      => n.lastID = held[i].id

\* two calls in a row returned identifiers, the second not above the first,
\* and the second is the last identifier
C11_Witness ==
    /\ ~n.strictMonotonicityChecks
    /\ Len(held) >= 2
    /\ Generated(held[Len(held) - 1])
    /\ Generated(held[Len(held)])
    /\ SLeq(held[Len(held)].id, held[Len(held) - 1].id)
    /\ n.lastID = held[Len(held)].id

\* C12: LastID returns the identifier of the most recent successful Generate
\* or GenerateWithTimestamp call that took the lock before it, and 0 when
\* there is none; failed calls and calls of other threads in progress do
\* not change what it returns.
C12_LastIDIsLatest ==
    /\ ret.op = "LastID" => ret.id = lastOk
    /\ \A i \in 1..Len(held) :
          (held[i].op = "LastID" /\ held[i].err = "nil")
             => LET before == {j \in 1..(i - 1) : Generated(held[j])}
                IN  IF before = {} THEN held[i].id = Zero
                    ELSE \E j \in before :
                            /\ \A k \in before : k <= j
                            /\ held[i].id = held[j].id

\* a call returned an identifier, the next call failed, and LastID then
\* returned that identifier
C12_Witness ==
    /\ Len(held) = 3
    /\ Generated(held[1])
    /\ held[2].op # "LastID" /\ held[2].err \notin {"nil", "pending"}
    /\ held[3].op = "LastID" /\ held[3].err = "nil"
    /\ held[3].id = held[1].id
    /\ ret.op = "LastID"

\* C13: once GenerateWithTimestamp has failed with ErrClockNotAdvancing at
\* a timestamp, the next GenerateWithTimestamp call with a valid category
\* at the same timestamp fails with ErrClockNotAdvancing too.
C13_ExhaustionPersists ==
    [][(/\ ret.op = "GenerateWithTimestamp"
        /\ ret.err = "ErrClockNotAdvancing"
        /\ ret'.op = "GenerateWithTimestamp"
        /\ ret'.idType <= TypeMax
        /\ ret'.ts = ret.ts)
          => ret'.err = "ErrClockNotAdvancing"]_vars

\* C14: in a run that uses Generate alone, a call whose clock reading is
\* earlier than the recorded timestamp uses the recorded timestamp (unless
\* the sequence wraps, when it waits for a later one), and the timestamp
\* field of every returned identifier is at least that of the identifier
\* returned before it.
C14_TimestampsNonDecreasing ==
    [][(ret'.op = "Generate" /\ ret'.err = "nil" /\ ret'.idType <= TypeMax)
          => /\ first # {}
                => SLeq(TimestampOffset(n.lastID), TimestampOffset(ret'.id))
             /\ (SLess(ret'.ts, n.time) /\ ~Wraps(n, ret'.ts))
                => TimestampOffset(ret'.id) = n.time]_vars

\* the clock read the epoch when the recorded timestamp was the last
\* millisecond of the range, and the call returned an identifier of that
\* last millisecond
C14_Witness ==
    /\ ret.op = "Generate"
    /\ ret.err = "nil"
    /\ first # {}
    /\ ret.ts = Zero
    /\ n.time = TimestampMax
    /\ TimestampOffset(ret.id) = TimestampMax

\* C15: a Generate call that wrapped the sequence returns an identifier
\* only on a clock reading above the exhausted millisecond; the identifier
\* carries that reading as its timestamp, which is later than the
\* exhausted millisecond, and sequence 0.
C15_WrapWaitsForLaterMillisecond ==
    [][\A t \in Threads :
          (pc[t] = "wait" /\ pc'[t] = "idle" /\ ret'.err = "nil")
             => /\ SLess(n.time, ret'.ts)
                /\ TimestampOffset(ret'.id) = ret'.ts
                /\ ID_Seq(ret'.id) = Zero]_vars

\* a call that wrapped the sequence read the clock twice in its wait loop
\* and returned an identifier of the last millisecond of the range
C15_Witness ==
    /\ ret.op = "Generate"
    /\ ret.err = "nil"
    /\ attempts = 2
    /\ \A t \in Threads : pc[t] # "wait"
    /\ n.time = TimestampMax
    /\ n.seq = 0

\* C16: every Generate call returns; its wait loop
\* counts at most maxRolloverWaitAttempts + 1 attempts, of which the last
\* reads no clock, and a call fails with ErrClockNotAdvancing out of the
\* loop only on that last attempt.
C16_GenerateTerminates ==
    /\ [](attempts <= maxRolloverWaitAttempts + 1)
    /\ [][\A t \in Threads :
            (pc[t] = "wait" /\ pc'[t] = "idle"
               /\ ret'.err = "ErrClockNotAdvancing")
               => attempts' = maxRolloverWaitAttempts + 1]_vars
    /\ (pc[Caller] # "idle") ~> (pc[Caller] = "idle")

\* a call gave up after maxRolloverWaitAttempts readings of a clock that
\* stood still
C16_Witness ==
    /\ ret.op = "Generate"
    /\ ret.err = "ErrClockNotAdvancing"
    /\ attempts = maxRolloverWaitAttempts + 1
    /\ \A t \in Threads : pc[t] # "wait"

\* C17 as claimed: while a Generate call stays in its wait loop no other
\* call returns and the generator's state does not change.
C17_NothingCompletes ==
    [][\A t \in Threads :
          (pc[t] = "wait" /\ pc'[t] = "wait")
             => /\ mu = t /\ mu' = t
                /\ n' = n
                /\ held' = held
                /\ ret' = ret]_vars

\* C17 as amended: while a Generate call stays in its wait loop it holds
\* the lock, no other call takes the lock, the generator's state does not
\* change, and the only calls that return are Generate and
\* GenerateWithTimestamp calls with a category above TypeMax, which fail
\* with ErrInvalIDType.
C17_WaitHoldsLock ==
    [][\A t \in Threads :
          (pc[t] = "wait" /\ pc'[t] = "wait")
             => /\ mu = t /\ mu' = t
                /\ n' = n
                /\ held' = held
                /\ ret' # ret
                      => /\ ret'.err = "ErrInvalIDType"
                         /\ ret'.op \in {"Generate", "GenerateWithTimestamp"}
                         /\ ret'.idType > TypeMax]_vars

\* a call is in its wait loop after two readings of the clock, and another
\* thread's LastID call is blocked on the lock
C17_Witness ==
    \E t, u \in Threads :
       /\ pc[t] = "wait"
       /\ attempts = 2
       /\ pc[u] = "lock"
       /\ method[u] = "LastID"

\* C18: a call with a valid category fails with the timestamp-overflow
\* error exactly when the timestamp offset it runs with, which it records
\* in n.time, is above TimestampMax; and the category field of a returned
\* identifier is the category of the call, with no timestamp bit in it.
C18_OverflowExactly ==
    (ret.op # "none" /\ ret.idType <= TypeMax)
       => /\ ret.err = "ErrTimestampOverflow" => SLess(TimestampMax, n.time)
          /\ ret.err \in {"nil", "ErrMonotonicityViolation"}
                => SLeq(n.time, TimestampMax)
          /\ ret.err = "nil" => ID_Type(ret.id) = W(ret.idType)

\* C19: NewNode returns a generator exactly for 0 <= nodeID <= 3, and
\* otherwise ErrInvalidNodeID and no generator; a Generate or
\* GenerateWithTimestamp call with a category above TypeMax returns
\* ErrInvalIDType and no identifier, and a call that returns at once,
\* without asking for the lock, is such a call and leaves the generator's
\* state and the lock as they are.
C19_ConfigurationErrors ==
    /\ [](/\ out[1] = "nil" <=> (0 <= arg[1] /\ arg[1] <= 3)
          /\ out[1] # "nil"
                => (out[1] = "ErrInvalidNodeID" /\ n = Nil /\ ret = NoCall)
          /\ out[1] = "nil" => n.node = arg[1]
          /\ (ret.op \in {"Generate", "GenerateWithTimestamp"}
                /\ ret.idType > TypeMax)
                => (ret.err = "ErrInvalIDType" /\ ret.id = Zero))
    /\ [][(started' # started /\ pc' = pc)
            => /\ ret'.err = "ErrInvalIDType"
               /\ ret'.idType > TypeMax
               /\ n' = n
               /\ mu' = mu
               /\ held' = held]_vars

\* on a generator that has returned an identifier two calls in a row
\* failed, the second of them for its category
C19_Witness ==
    /\ out = <<"nil">>
    /\ arg[1] = NodeMax
    /\ ret.err = "ErrInvalIDType"
    /\ fails = 2
    /\ n.lastID # Zero
    /\ n.lastID = lastOk

\* C20: two generators constructed with different node ids never return
\* the same identifier: every identifier carries the node id of the
\* generator that returned it in its node field.
C20_NodesNeverCollide ==
    /\ issued[1] \cap issued[2] = {}
    /\ \A g \in Generators :
          \A id \in issued[g] : ID_Node(id) = W(NodeOf(g).node)

\* the two generators have returned identifiers with the same category,
\* the same timestamp and the same sequence
C20_Witness ==
    \E x \in issued[1] :
       \E y \in issued[2] :
          /\ ID_Type(x) = ID_Type(y)
          /\ TimestampOffset(x) = TimestampOffset(y)
          /\ ID_Seq(x) = ID_Seq(y)
          /\ TimestampOffset(x) = TimestampMax

\* C21: a loud and a quiet generator with the same node id and strictness,
\* given the same calls and the same clock readings, return the same
\* identifier and the same error from every call and are left with the same
\* timestamp, sequence and last identifier.
C21_QuietChangesNothing ==
    /\ ret.op # "none" => (out[1].id = ret.id /\ out[1].err = ret.err)
    /\ peer.time = n.time
    /\ peer.seq = n.seq
    /\ peer.lastID = n.lastID
    /\ peer.quietMode /\ ~n.quietMode

\* the loud generator has logged a clock regression that the quiet one
\* kept silent about, and both then returned an identifier
C21_Witness ==
    /\ clockWarningCount[1] > 0
    /\ clockWarningCount[2] = clockWarningCount[1]
    /\ logged[1] > 1
    /\ logged[2] = 0
    /\ Succeeded(ret)
    /\ ret.op = "Generate"
    /\ out[1].err = "nil"
\* C22: for every value from 0 to 2^63-1, ParseBase32 of its Base32 text and
\* ParseBase58 of its Base58 text return the value without an error; the
\* text is never empty and never longer than 13 (base 32) or 11 (base 58)
\* characters, and for 0 it is the first character of the alphabet alone.
C22_Base32Base58RoundTrip ==
    (arg.kind = "value" /\ out.f \in {"Base32", "Base58"}) =>
       /\ out.text = Encoded(out.f, arg.v)
       /\ out.err = "nil"
       /\ out.id = arg.v
       /\ Len(out.text) >= 1
       /\ Len(out.text) <= (IF out.f = "Base32" THEN 13 ELSE 11)
       /\ arg.v = Zero =>
             out.text = <<(IF out.f = "Base32" THEN encodeBase32Map
                                               ELSE encodeBase58Map)[1]>>

\* 2^63-1 has been through base 58 and back, in the full 11 characters
C22_Witness ==
    /\ arg.kind = "value"
    /\ arg.v = MaxInt64
    /\ out.f = "Base58"
    /\ Len(out.text) = 11
    /\ out.id = MaxInt64

\* C23: for every value from 0 to 2^63-1, the Base64 text is 11 characters
\* of the URL-safe alphabet, the bytes of the value in big-endian order (so
\* character k is other than "A" exactly when one of its six bits, counted
\* from bit 63 down, is set in the value), and ParseBase64 of it returns the
\* value without an error.
C23_Base64RoundTrip ==
    (arg.kind = "value" /\ out.f = "Base64") =>
       /\ out.text = Base64(arg.v)
       /\ Len(out.text) = 11
       /\ \A k \in 1..11 :
             /\ decodeMap(encodeURL, out.text[k]) # 255
             /\ out.text[k] # "A" <=>
                   \E b \in arg.v : (SignBit - b) \div 6 = k - 1
       /\ out.err = "nil"
       /\ out.id = arg.v

\* 2^63-1 has been through base 64 and back
C23_Witness ==
    /\ arg.kind = "value"
    /\ arg.v = MaxInt64
    /\ out.f = "Base64"
    /\ out.text[1] = "f"
    /\ out.text[11] = "8"
    /\ out.id = MaxInt64

\* C24: for every value from 0 to 2^63-1, ParseString of the String text and
\* ParseBase2 of the Base2 text return the value without an error, and the
\* Base2 text is 63 characters, each "0" or "1".
C24_DecimalBinaryRoundTrip ==
    (arg.kind = "value" /\ out.f \in {"String", "Base2"}) =>
       /\ out.text = Encoded(out.f, arg.v)
       /\ out.err = "nil"
       /\ out.id = arg.v
       /\ out.f = "Base2" =>
             /\ Len(out.text) = 63
             /\ \A k \in 1..63 : out.text[k] \in {"0", "1"}

\* 1 has been through base 2 and back, with 62 zeros in front of it
C24_Witness ==
    /\ arg.kind = "value"
    /\ arg.v = W(1)
    /\ out.f = "Base2"
    /\ Len(out.text) = 63
    /\ out.text[1] = "0"
    /\ out.text[63] = "1"
    /\ out.id = W(1)

\* the characters of s are all in the set
AllIn(s, chars) == \A k \in 1..Len(s) : s[k] \in chars

\* C25: every decode by ParseString, ParseBase2, ParseBase32, ParseBase58 or
\* ParseBase64 that succeeds returns a value from 0 to 2^63-1, and a decimal
\* or binary text with a sign or any other character that is no digit is
\* rejected with an error.
C25_DecodersNonNegative ==
    (out.f \in {"String", "Base2", "Base32", "Base58", "Base64"}) =>
       /\ out.err = "nil" => SignBit \notin out.id
       /\ (out.f = "String" /\ ~AllIn(out.text, {digits[i] : i \in 1..10}))
             => out.err # "nil"
       /\ (out.f = "Base2" /\ ~AllIn(out.text, {"0", "1"}))
             => out.err # "nil"

\* one step of the value of a digit string as a number of any size:
\* acc.hi * 2^64 + acc.lo, times the base, plus the digit
WideStep(acc, s, i, alphabet, base) ==
    IF i > Len(s) THEN acc
    ELSE LET m == MulAdd(acc.lo, base, decodeMap(alphabet, s[i]))
         IN  [hi |-> acc.hi * base + m.carry, lo |-> m.v]

\* the value of a digit string of at most 14 known characters
WideValue(s, alphabet, base) ==
    LET a1 == WideStep([hi |-> 0, lo |-> ZeroLimbs], s, 1, alphabet, base)
        a2 == WideStep(a1, s, 2, alphabet, base)
        a3 == WideStep(a2, s, 3, alphabet, base)
        a4 == WideStep(a3, s, 4, alphabet, base)
        a5 == WideStep(a4, s, 5, alphabet, base)
        a6 == WideStep(a5, s, 6, alphabet, base)
        a7 == WideStep(a6, s, 7, alphabet, base)
        a8 == WideStep(a7, s, 8, alphabet, base)
        a9 == WideStep(a8, s, 9, alphabet, base)
        a10 == WideStep(a9, s, 10, alphabet, base)
        a11 == WideStep(a10, s, 11, alphabet, base)
        a12 == WideStep(a11, s, 12, alphabet, base)
        a13 == WideStep(a12, s, 13, alphabet, base)
        a14 == WideStep(a13, s, 14, alphabet, base)
    IN  <<a1, a2, a3, a4, a5, a6, a7, a8, a9, a10, a11, a12, a13, a14>>[14]

\* C26: ParseBase32 and ParseBase58 return an error for an empty text, a
\* text of more than 13 (base 32) or 11 (base 58) characters, a text with a
\* character outside the alphabet and a text whose value as a number is above
\* 2^63-1; for every other text they return exactly that value.  No text is
\* accepted with a value that 64-bit arithmetic wrapped around.
C26_ExactValueOrError ==
    (out.f \in {"Base32", "Base58"}) =>
       LET alphabet == IF out.f = "Base32" THEN encodeBase32Map
                                           ELSE encodeBase58Map
           base == IF out.f = "Base32" THEN 32 ELSE 58
           longest == IF out.f = "Base32" THEN 13 ELSE 11
           known == \A k \in 1..Len(out.text) :
                       decodeMap(alphabet, out.text[k]) # 255
           value == WideValue(out.text, alphabet, base)
       IN  IF Len(out.text) = 0 \/ Len(out.text) > longest \/ ~known
           THEN out.err # "nil"
           ELSE IF value.hi > 0 \/ SignBit \in Word(value.lo)
           THEN out.err # "nil"
           ELSE out.err = "nil" /\ out.id = Word(value.lo)

\* a base-58 text of 11 known characters whose value is 2^64 or more, so
\* that it does not fit 64 bits, has been rejected
C26_Witness ==
    /\ arg.kind = "Base58"
    /\ out.f = "Base58"
    /\ Len(out.text) = 11
    /\ AllIn(out.text, {encodeBase58Map[i] : i \in 1..58})
    /\ WideValue(out.text, encodeBase58Map, 58).hi = 1
    /\ Word(WideValue(out.text, encodeBase58Map, 58).lo) = W(1)
    /\ out.err = "ErrInvalidBase58"

\* C27: MarshalJSON writes the value as its decimal digits between two
\* quotes, and for every value from 0 to 2^63-1 UnmarshalJSON of that text,
\* and of the digits without the quotes, sets the target to the value
\* without an error.
C27_JSONRoundTrip ==
    /\ (arg.kind = "value" /\ out.f = "JSON") =>
          /\ out.text = <<"\"">> \o String(arg.v) \o <<"\"">>
          /\ AllIn(SubSeq(out.text, 2, Len(out.text) - 1),
                   {digits[i] : i \in 1..10})
          /\ out.err = "nil"
          /\ out.id = arg.v
    /\ (arg.kind = "value" /\ out.f = "Number") =>
          /\ out.text = String(arg.v)
          /\ AllIn(out.text, {digits[i] : i \in 1..10})
          /\ out.err = "nil"
          /\ out.id = arg.v

\* 2^63-1 has been marshalled and unmarshalled into a target that held 7
C27_Witness ==
    /\ arg.kind = "value"
    /\ arg.v = MaxInt64
    /\ arg.target = W(7)
    /\ out.f = "JSON"
    /\ Len(out.text) = 21
    /\ out.id = MaxInt64

\* the bytes between the quotes, or all of them when there are no quotes
Unquoted(b) ==
    IF Len(b) >= 2 /\ b[1] = "\"" /\ b[Len(b)] = "\""
    THEN SubSeq(b, 2, Len(b) - 1) ELSE b

\* C28: UnmarshalJSON returns an error for a negative value, quoted or bare,
\* and for bytes that are no integer (a string that is no number, a boolean,
\* a number with a fraction), and whenever it returns an error the target
\* holds what it held before.
C28_UnmarshalRejects ==
    (arg.kind = "JSON" /\ out.f = "JSON") =>
       LET inner == Unquoted(out.text)
           negative == /\ Len(inner) >= 2
                       /\ inner[1] = "-"
                       /\ AllIn(SubSeq(inner, 2, Len(inner)),
                                {digits[i] : i \in 1..10})
                       /\ \E k \in 2..Len(inner) : inner[k] # "0"
           integer == AllIn(inner, {digits[i] : i \in 1..10} \cup {"+", "-"})
       IN  /\ negative => out.err # "nil"
           /\ ~integer => out.err # "nil"
           /\ out.err # "nil" => out.id = arg.target

\* the quoted text "-1" has been refused and the target still holds 7
C28_Witness ==
    /\ arg.kind = "JSON"
    /\ arg.target = W(7)
    /\ arg.text = <<"\"", "-", "1", "\"">>
    /\ out.f = "JSON"
    /\ out.err = "ErrNegative"
    /\ out.id = W(7)

\* C29: a call that succeeds with the timestamp offset the generator had
\* recorded (n.time is what generateInternal leaves there: the offset the
\* call used) and a sequence counter below 1023 returns an identifier with
\* that timestamp and the sequence counter plus one; a call that succeeds
\* with another offset returns sequence 0.
C29_SequenceStep ==
    [][Succeeded(ret') =>
          IF n'.time = n.time
          THEN n.seq < SeqMax =>
                  /\ TimestampOffset(ret'.id) = n.time
                  /\ ID_Seq(ret'.id) = W(n.seq + 1)
          ELSE ID_Seq(ret'.id) = Zero]_vars

\* C30: the first identifier that a generator returns after its
\* construction has sequence 0, whether Generate returns it, whatever the
\* clock reads, or GenerateWithTimestamp at a timestamp that is in range,
\* the epoch included.
C30_FirstSequenceZero ==
    [][(/\ lastOk = Zero
        /\ Succeeded(ret')
        /\ ret'.op = "GenerateWithTimestamp" => InRange(ret'.ts))
          => ID_Seq(ret'.id) = Zero]_vars

\* (category, timestamp offset, node, sequence) of a is lexicographically
\* smaller than that of b
LexLess(a, b) ==
    \/ a[1] < b[1]
    \/ a[1] = b[1] /\ SLess(a[2], b[2])
    \/ a[1] = b[1] /\ a[2] = b[2] /\ a[3] < b[3]
    \/ a[1] = b[1] /\ a[2] = b[2] /\ a[3] = b[3] /\ a[4] < b[4]

\* C31: for two identifiers packed from fields within their declared
\* widths, a < b as signed integers exactly when (category, timestamp
\* offset, node, sequence) of a is lexicographically smaller than that of
\* b; so the category decides before the time does, and identifiers of one
\* category and node are ordered by (timestamp offset, sequence).
C31_OrderIsLexicographic ==
    out # <<>>
       => /\ SLess(out[1], out[2]) <=> LexLess(arg[1], arg[2])
          /\ (arg[1][1] = arg[2][1] /\ arg[1][3] = arg[2][3])
                => (SLess(out[1], out[2])
                      <=> \/ SLess(arg[1][2], arg[2][2])
                          \/ arg[1][2] = arg[2][2] /\ arg[1][4] < arg[2][4])

\* an identifier of category 0 at the last timestamp was compared with one
\* of category 1 at timestamp 0, and is the smaller
C31_Witness ==
    /\ arg = <<<<0, TimestampMax, NodeMax, SeqMax>>, <<1, Zero, 0, 0>>>>
    /\ out # <<>>
    /\ SLess(out[1], out[2])

\* C32: when Generate has failed with ErrClockNotAdvancing and the clock
\* still reads no later than the stuck millisecond at the next Generate
\* call with a valid category, that call fails with ErrClockNotAdvancing
\* too: it returns no identifier and no other error.
C32_StallPersists ==
    [][(/\ ret.op = "Generate"
        /\ ret.err = "ErrClockNotAdvancing"
        /\ ret'.op = "Generate"
        /\ ret'.idType <= TypeMax
        /\ ~SLess(n.time, ret'.ts))
          => ret'.err = "ErrClockNotAdvancing"]_vars

\* C33: after GenerateWithTimestamp has failed with the timestamp-overflow
\* error, a Generate call with a valid category that is made while the
\* clock reads an offset within the 41-bit range succeeds.
C33_OverflowDoesNotDisable ==
    [][(/\ ret.op = "GenerateWithTimestamp"
        /\ ret.err = "ErrTimestampOverflow"
        /\ ret'.op = "Generate"
        /\ ret'.idType <= TypeMax
        /\ InRange(ret'.ts))
          => ret'.err = "nil"]_vars

\* x is within 0..top
Within(x, top) == ~SLess(x, Zero) /\ SLeq(x, top)

\* C34: for a value v of 0..2^63-1, Type, the timestamp offset, Node and
\* Seq of v are within 0..1023, 0..2^41-1, 0..3 and 0..1023, and
\* (type << 53) | (timestamp << 12) | (node << 10) | seq of them is v; the
\* four masks are pairwise disjoint and together are the low 63 bits.
C34_ExtractorsTotal ==
    /\ out # <<>>
          => /\ Within(out[1], W(1023))
             /\ Within(out[2], Dec(Shl(W(1), 41)))
             /\ Within(out[3], W(3))
             /\ Within(out[4], W(1023))
             /\ Or(Or(Or(Shl(out[1], 53), Shl(out[2], 12)), Shl(out[3], 10)),
                   out[4]) = arg
    /\ \A pair \in {<<SeqMask, NodeMask>>, <<SeqMask, TimestampMask>>,
                    <<SeqMask, TypeMask>>, <<NodeMask, TimestampMask>>,
                    <<NodeMask, TypeMask>>, <<TimestampMask, TypeMask>>} :
          And(pair[1], pair[2]) = Zero
    /\ Or(Or(SeqMask, NodeMask), Or(TimestampMask, TypeMask)) = MaxInt64

\* the fields of 2^63 - 1 were extracted, each at its maximum
C34_Witness ==
    /\ arg = MaxInt64
    /\ out = <<W(TypeMax), TimestampMax, W(NodeMax), W(SeqMax)>>

\* C35: a text that ParseBase32 or ParseBase58 accepts is the canonical
\* text of the value it decodes to: Base32, respectively Base58, of the
\* decoded value is the text again, so that no two accepted texts decode to
\* one identifier.
C35_OnlyCanonicalAccepted ==
    (/\ out # NotRun
     /\ out.f \in {"Base32", "Base58"}
     /\ out.err = "nil")
       => Encoded(out.f, out.id) = out.text

\* the threads that are between n.mu.Lock() and n.mu.Unlock()
InCriticalSection == {t \in Threads : pc[t] \in {"locked", "wait"}}

\* C36: under a fair scheduler every Generate, GenerateWithTimestamp and
\* LastID call of every thread returns (whatever a thread is doing, it is
\* back outside its call later, which is to say that it is outside a call
\* again and again); the lock is held exactly while one
\* call is between Lock and Unlock, so that every return, with an
\* identifier or with any error, leaves it released and at most one call is
\* in the critical section.
C36_EveryCallReturns ==
    /\ [](/\ Cardinality(InCriticalSection) <= 1
          /\ \A t \in Threads : mu = t <=> t \in InCriticalSection)
    /\ \A t \in Threads : []<>(pc[t] = "idle")

\* a thread is blocked in n.mu.Lock() while another sleeps in the wait loop
\* with the lock held
C36_Witness ==
    \E t, u \in Threads : pc[t] = "lock" /\ pc[u] = "wait" /\ mu = u

\* the service has just started, or it answered the last request with
\* success
LastSucceeded == out.endpoint = "Start" \/ (out.endpoint # "none" /\ out.status = 200)

\* C37: when the clock has advanced since the last request and the requests
\* before were answered with success, a POST /generate request with id_type in 0..1023
\* and count in 1..100 is answered with success and exactly count
\* identifiers of that category, whatever the categories of the requests
\* and health checks before it.
C37_GenerateSucceeds ==
    [][(/\ LastSucceeded
        /\ SLess(arg.now, arg'.now)
        /\ out'.endpoint = "/generate"
        /\ out'.method = "POST"
        /\ out'.id_type # <<>>
        /\ out'.id_type[1] \in 0..1023
        /\ out'.count # <<>>
        /\ out'.count[1] \in 1..100)
          => /\ out'.status = 200
             /\ Len(out'.ids) = out'.count[1]
             /\ \A i \in 1..Len(out'.ids) :
                   ID_Type(out'.ids[i]) = W(out'.id_type[1])]_vars

\* C38: when the clock has advanced since the last request, GET /health is
\* answered healthy (200) after any successful /generate and /health
\* requests, whatever their categories.
C38_HealthStaysHealthy ==
    [][(/\ LastSucceeded
        /\ SLess(arg.now, arg'.now)
        /\ out.endpoint \in {"Start", "/generate", "/health"}
        /\ out'.endpoint = "/health"
        /\ out'.method = "GET")
          => out'.status = 200]_vars

\* C39: the node_id that GET /info reports and that Start logs is the
\* NODE_ID of the configuration, before the first identifier is generated
\* as well as after.
C39_NodeIDIsConfigured ==
    (out.endpoint \in {"Start", "/info"} /\ out.node_id # <<>>)
       => out.node_id[1] = W(arg.NODE_ID)
====
